---- MODULE Spec2Model ----
(***************************************************************************)
(* Verification model of the PEANUT-AGENT gateway core: audit chain, rate  *)
(* limiter, authentication core and the weighted agent selector.           *)
(*                                                                         *)
(* Conventions.                                                            *)
(*  - Time is the wall clock in milliseconds (Date.now()); it never runs   *)
(*    backwards.                                                           *)
(*  - SHA-256 is modelled as a collision-free function: the digest of a    *)
(*    canonical JSON text is the tagged tuple of the values the text       *)
(*    holds.  Fingerprints are therefore tuples; the literal 'GENESIS' is  *)
(*    the one-element tuple <<"GENESIS">>.                                 *)
(*  - randomBytes(..) identifiers are fresh values drawn from a counter.   *)
(*  - A JS object with ordered keys (details) is a sequence of <<key,      *)
(*    value>> pairs, so JSON.stringify / JSON.parse keep what they keep in *)
(*    the program: the key order and the values.                           *)
(***************************************************************************)
EXTENDS Integers, Sequences, FiniteSets, TLC

(***************************************************************************)
(* Bounds of the model (not program constants).                            *)
(***************************************************************************)
MaxAudit == 3          \* rows appended to audit_log in the audit specifications
MaxClock == 1          \* clock ticks in the audit specifications

VARIABLES
  now,            \* Date.now(), ms
  nextId,         \* source of fresh random identifiers
  audit_log,      \* table audit_log, rows in rowid (insertion) order
  qres,           \* result of the last AuditService.query
  logpc,          \* per in-flight AuditService.log call: "idle" | "read"
  logprev,        \* per call: the previousFingerprint it has read
  logparams,      \* per call: its LogAuditParams
  origin,         \* ghost: for each stored row, the row as it was inserted
  tampers,        \* ghost: number of out-of-band edits so far (at most one is studied)
  rate_limit_windows, \* table rate_limit_windows: [key, window_start] -> count
  rlres,          \* outcome of the last RateLimitService.check
  rlcalls,        \* ghost: per key, the window of its last check and the checks made in it
  users,          \* table users: id -> row
  minted,         \* ghost: intermediate tokens minted by AuthService.login
  sessions,       \* ghost: session tokens (JWT payloads) signed so far
  resp,           \* the last HTTP response of an auth route
  consumed,       \* ghost: backup codes accepted by totp/verify so far
  issued,         \* ghost: the backup codes returned by the last totp/setup
  authops,        \* ghost: number of requests per auth route, and clock advances
  weightedAgents, \* OpenClawService.weightedAgents
  selections,     \* ghost: the agents returned by weightedRoundRobin, in order
  agents,         \* table agents: id -> row
  agent_health,   \* table agent_health: agent_id -> row
  lastSync,       \* OpenClawService.lastSync
  disp,           \* the dispatch in flight: where it stands and what it holds
  dres,           \* what the last finished dispatch returned or raised
  cacheload,      \* ghost: the tables as they were at the last cache load
  clawops,        \* ghost: number of operations of each kind, backend calls made
  upend,          \* per in-flight AuthService.createUser call: what it holds before save
  ures,           \* what the last createUser or changePassword returned or raised
  userops,        \* ghost: number of createUser and changePassword calls
  activeConnections, \* terminal.handler: the module's connection counter
  terminals,      \* the terminal connections accepted so far: socket and shell of each
  tres,           \* outcome of the last terminal connection attempt
  termops,        \* ghost: number of connection attempts and of socket and shell events
  kilo_config,    \* table kilo_config: the row with id 1, or none
  kres,           \* the last response of PUT /kilo/config
  kiloops,        \* ghost: number of PUT /kilo/config requests
  cry,            \* one use of the AES helpers: its inputs and what came back
  ares,           \* the last request to an /agents route and its response
  agentops,       \* ghost: number of requests to the /agents routes
  burst,          \* ghost: one client's run of check calls on one key
  sync,           \* the cache reload and selection in flight, where it stands
  kconn,          \* the last GET /kilo/status: what it met, what getUsage did, the answer
  apend,          \* per in-flight AuthService.login or verifyTotp call: what it read and was given
  ahist,          \* ghost: the login and verifyTotp calls that ended, in the order they ended
  mpend,          \* per in-flight updateAgentMetrics or checkHealth call: the health row it read
  mdone           \* ghost: the metric updates and probes whose writes have completed, in order

auditVars == <<audit_log, qres, logpc, logprev, logparams, origin, tampers>>
rateVars == <<rate_limit_windows, rlres, rlcalls>>
authVars == <<users, minted, sessions, resp, consumed, issued, authops>>
clawVars == <<weightedAgents, selections, agents, agent_health, lastSync, disp,
              dres, cacheload, clawops>>
userVars == <<upend, ures, userops>>
termVars == <<activeConnections, terminals, tres, termops>>
kiloVars == <<kilo_config, kres, kiloops>>
cryptoVars == <<cry>>
agentVars == <<ares, agentops>>
vaultVars == <<kconn>>
burstVars == <<burst>>
syncVars == <<sync>>
raceVars == <<apend, ahist>>
metricVars == <<mpend, mdone>>
lateVars == <<raceVars, metricVars>>
restVars == <<agentVars, vaultVars, burstVars, syncVars, lateVars>>
extVars == <<userVars, termVars, kiloVars, cryptoVars, restVars>>
vars == <<now, nextId, auditVars, rateVars, authVars, clawVars, extVars>>

(***************************************************************************)
(* Small helpers.                                                          *)
(***************************************************************************)
Min(a, b) == IF a < b THEN a ELSE b
Max(a, b) == IF a > b THEN a ELSE b
CeilDiv(a, b) == (a + b - 1) \div b
Range(s) == {s[i] : i \in 1..Len(s)}
Range2(f) == {f[i] : i \in DOMAIN f}
\* randomBytes(n).toString('hex'): the k-th fresh random value as a string
HexId(k) == ToString(k)
RemoveAt(s, i) == [j \in 1..(Len(s) - 1) |-> IF j < i THEN s[j] ELSE s[j + 1]]

(***************************************************************************)
(* AuditEntry (domain/audit/audit.entity)                                   *)
(***************************************************************************)
GENESIS == <<"GENESIS">>

Sha256(canonical) == <<"sha256", canonical>>

\* The canonical JSON holds eight fields; userEmail, ipAddress and userAgent
\* are passed in but are not part of the digest.
computeFingerprint(data) ==
  Sha256(<<data.id, data.action, data.userId, data.resourceType,
           data.resourceId, data.details, data.previousFingerprint,
           data.timestamp>>)

AuditEntryCreate(props, previousFingerprint, timestamp) ==
  LET data == [id |-> props.id, action |-> props.action, userId |-> props.userId,
               userEmail |-> props.userEmail, ipAddress |-> props.ipAddress,
               userAgent |-> props.userAgent, resourceType |-> props.resourceType,
               resourceId |-> props.resourceId, details |-> props.details,
               previousFingerprint |-> previousFingerprint,
               timestamp |-> timestamp]
  IN [id |-> props.id, action |-> props.action, userId |-> props.userId,
      userEmail |-> props.userEmail, ipAddress |-> props.ipAddress,
      userAgent |-> props.userAgent, resourceType |-> props.resourceType,
      resourceId |-> props.resourceId, details |-> props.details,
      fingerprint |-> computeFingerprint(data),
      previousFingerprint |-> previousFingerprint,
      timestamp |-> timestamp]

recomputeAndVerify(e) ==
  computeFingerprint([id |-> e.id, action |-> e.action, userId |-> e.userId,
                      userEmail |-> e.userEmail, ipAddress |-> e.ipAddress,
                      userAgent |-> e.userAgent, resourceType |-> e.resourceType,
                      resourceId |-> e.resourceId, details |-> e.details,
                      previousFingerprint |-> e.previousFingerprint,
                      timestamp |-> e.timestamp]) = e.fingerprint

verifyIntegrity(e, expectedPreviousFingerprint) ==
  e.previousFingerprint = expectedPreviousFingerprint

(***************************************************************************)
(* SqliteAuditRepository (infrastructure/database/audit.repository)         *)
(***************************************************************************)
\* Row i comes before row j under ORDER BY timestamp DESC.  The statement is
\* served by a backward scan of idx_audit_timestamp, whose entries are
\* (timestamp, rowid): rows of equal timestamp come out newest rowid first.
RowBefore(log, i, j) ==
  \/ log[i].timestamp > log[j].timestamp
  \/ log[i].timestamp = log[j].timestamp /\ i > j

findLatestFingerprint_oldest(log) ==
  IF Len(log) = 0 THEN GENESIS ELSE log[1].fingerprint

findLatestFingerprint(log) ==
  IF Len(log) = 0 THEN GENESIS
  ELSE LET i == CHOOSE k \in 1..Len(log) :
                  \A j \in 1..Len(log) : j # k => RowBefore(log, k, j)
       IN log[i].fingerprint

AuditRepoSave(log, entry) == Append(log, entry)

\* WHERE clause of SqliteAuditRepository.query; an absent (falsy) filter is
\* "" for the strings and -1 for the dates.
MatchesFilter(row, params) ==
  /\ params.userId # "" => row.userId = params.userId
  /\ params.action # "" => row.action = params.action
  /\ params.resourceType # "" => row.resourceType = params.resourceType
  /\ params.startDate # -1 => row.timestamp >= params.startDate
  /\ params.endDate # -1 => row.timestamp <= params.endDate

RECURSIVE OrderDesc(_, _)
\* the row numbers in idxs, ordered by timestamp DESC
OrderDesc(log, idxs) ==
  IF idxs = {} THEN <<>>
  ELSE LET first == CHOOSE k \in idxs : \A j \in idxs : j # k => RowBefore(log, k, j)
       IN <<first>> \o OrderDesc(log, idxs \ {first})

AuditRepoQuery(log, params) ==
  LET matching == {i \in 1..Len(log) : MatchesFilter(log[i], params)}
      ordered == OrderDesc(log, matching)
      offset == (params.page - 1) * params.limit
      last == Min(Len(ordered), offset + params.limit)
  IN [entries |-> [k \in 1..Max(0, last - offset) |-> log[ordered[offset + k]]],
      total |-> Cardinality(matching)]

(***************************************************************************)
(* AuditService (application/services/audit.service)                        *)
(***************************************************************************)
\* AuditService.log run to completion: read, create, insert.
AuditLog(log, id, params, timestamp) ==
  LET previousFingerprint == findLatestFingerprint(log)
      entry == AuditEntryCreate([id |-> id, action |-> params.action,
                 userId |-> params.userId, userEmail |-> params.userEmail,
                 ipAddress |-> params.ipAddress, userAgent |-> params.userAgent,
                 resourceType |-> params.resourceType,
                 resourceId |-> params.resourceId, details |-> params.details],
                 previousFingerprint, timestamp)
  IN AuditRepoSave(log, entry)

AuditQuery_dropInvalid(log, params) ==
  LET r == AuditRepoQuery(log, params)
  IN [entries |-> SelectSeq(r.entries, recomputeAndVerify),
      total |-> r.total, page |-> params.page, limit |-> params.limit,
      pages |-> CeilDiv(r.total, params.limit),
      integrityValid |-> \A k \in 1..Len(r.entries) : recomputeAndVerify(r.entries[k])]

AuditQuery(log, params) ==
  LET r == AuditRepoQuery(log, params)
  IN [entries |-> r.entries,
      total |-> r.total, page |-> params.page, limit |-> params.limit,
      pages |-> CeilDiv(r.total, params.limit),
      integrityValid |-> \A k \in 1..Len(r.entries) : recomputeAndVerify(r.entries[k])]

(***************************************************************************)
(* Inputs of the audit operations.                                         *)
(***************************************************************************)
LogParamsSet ==
  { [action |-> "auth.login", userId |-> "u1", userEmail |-> "u@test.com",
     ipAddress |-> "127.0.0.1", userAgent |-> "ua", resourceType |-> "user",
     resourceId |-> "u1", details |-> << <<"method", "password">> >>],
    [action |-> "agent.created", userId |-> "u2", userEmail |-> "op@test.com",
     ipAddress |-> "internal", userAgent |-> "system", resourceType |-> "agent",
     resourceId |-> "a1", details |-> << <<"name", "A">> >>] }

NoFilter == [userId |-> "", action |-> "", resourceType |-> "",
             startDate |-> -1, endDate |-> -1]

QueryParamsSet ==
  { [page |-> pg, limit |-> lm, userId |-> f.userId, action |-> f.action,
     resourceType |-> f.resourceType, startDate |-> f.startDate,
     endDate |-> f.endDate] :
      pg \in 1..2, lm \in {2, 50},
      f \in {NoFilter, [NoFilter EXCEPT !.action = "auth.login", !.userId = "u1"],
             [NoFilter EXCEPT !.resourceType = "agent", !.startDate = 0, !.endDate = 1]} } \
  { [page |-> 2, limit |-> 50] @@ f :
      f \in {[NoFilter EXCEPT !.action = "auth.login", !.userId = "u1"],
             [NoFilter EXCEPT !.resourceType = "agent", !.startDate = 0, !.endDate = 1]} }

\* the unfiltered pages an operator looks at after an edit of the store
PageParamsSet == {q \in QueryParamsSet :
                    q.userId = "" /\ q.action = "" /\ q.resourceType = ""
                    /\ q.startDate = -1 /\ q.page * q.limit <= 50}

\* the columns an edit rewrites together with the row's fingerprint
RewriteFields == {"details", "userEmail"}

Processes == {1, 2}

\* the value an out-of-band edit writes into a column
TamperValue(row, field) ==
  CASE field = "id" -> "tampered-id"
    [] field = "action" -> "auth.logout"
    [] field = "userId" -> "intruder"
    [] field = "userEmail" -> "x@evil.com"
    [] field = "ipAddress" -> "10.0.0.9"
    [] field = "userAgent" -> "curl"
    [] field = "resourceType" -> "settings"
    [] field = "resourceId" -> "zz"
    [] field = "details" -> << <<"method", "hacked">> >>
    [] field = "previousFingerprint" -> <<"tampered-fingerprint">>
    [] field = "timestamp" -> row.timestamp + 1
    [] field = "fingerprint" -> <<"tampered-fingerprint">>

ContentFields == {"id", "action", "userId", "userEmail", "ipAddress", "userAgent",
                  "resourceType", "resourceId", "details", "previousFingerprint",
                  "timestamp"}

(***************************************************************************)
(* Audit actions.  qres holds the response of the query just answered; it  *)
(* is gone once another operation runs.                                    *)
(***************************************************************************)
NoQueryResult ==
  [valid |-> FALSE, params |-> [page |-> 1, limit |-> 50] @@ NoFilter,
   result |-> AuditQuery(<<>>, [page |-> 1, limit |-> 50] @@ NoFilter)]

AuditInit ==
  /\ audit_log = <<>>
  /\ qres = NoQueryResult
  /\ logpc = [p \in Processes |-> "idle"]
  /\ logprev = [p \in Processes |-> GENESIS]
  /\ logparams = [p \in Processes |-> CHOOSE x \in LogParamsSet : TRUE]
  /\ origin = <<>>
  /\ tampers = 0

\* the wall clock advances by one millisecond
AuditTick ==
  /\ now < MaxClock
  /\ now' = now + 1
  /\ UNCHANGED <<nextId, audit_log, logpc, logprev, logparams, origin, tampers>>
  /\ UNCHANGED <<rateVars, authVars, clawVars>>
  /\ qres' = NoQueryResult
  /\ UNCHANGED extVars

\* AuditService.log, called and awaited alone
Log(params) ==
  /\ Len(origin) < MaxAudit
  /\ audit_log' = AuditLog(audit_log, HexId(nextId), params, now)
  /\ origin' = Append(origin, audit_log'[Len(audit_log')])
  /\ nextId' = nextId + 1
  /\ UNCHANGED <<now, logpc, logprev, logparams, tampers>>
  /\ UNCHANGED <<rateVars, authVars, clawVars>>
  /\ qres' = NoQueryResult
  /\ UNCHANGED extVars

\* AuditService.log up to its first await: the latest fingerprint is read
LogRead(p, params) ==
  /\ logpc[p] = "idle"
  /\ Len(origin) + Cardinality({q \in Processes : logpc[q] = "read"}) < MaxAudit
  /\ logpc' = [logpc EXCEPT ![p] = "read"]
  /\ logprev' = [logprev EXCEPT ![p] = findLatestFingerprint(audit_log)]
  /\ logparams' = [logparams EXCEPT ![p] = params]
  /\ UNCHANGED <<now, nextId, audit_log, origin, tampers>>
  /\ UNCHANGED <<rateVars, authVars, clawVars>>
  /\ qres' = NoQueryResult
  /\ UNCHANGED extVars

\* AuditService.log after the await: the entry is created and inserted
LogSave(p) ==
  /\ logpc[p] = "read"
  /\ LET params == logparams[p]
         entry == AuditEntryCreate([id |-> HexId(nextId), action |-> params.action,
                    userId |-> params.userId, userEmail |-> params.userEmail,
                    ipAddress |-> params.ipAddress, userAgent |-> params.userAgent,
                    resourceType |-> params.resourceType,
                    resourceId |-> params.resourceId, details |-> params.details],
                    logprev[p], now)
     IN /\ audit_log' = AuditRepoSave(audit_log, entry)
        /\ origin' = Append(origin, entry)
  /\ nextId' = nextId + 1
  /\ logpc' = [logpc EXCEPT ![p] = "idle"]
  /\ UNCHANGED <<now, logprev, logparams, tampers>>
  /\ UNCHANGED <<rateVars, authVars, clawVars>>
  /\ qres' = NoQueryResult
  /\ UNCHANGED extVars

\* AuditService.query
Query(params) ==
  /\ qres' = [valid |-> TRUE, params |-> params,
              result |-> AuditQuery(audit_log, params)]
  /\ UNCHANGED <<now, nextId, audit_log, logpc, logprev, logparams, origin, tampers>>
  /\ UNCHANGED <<rateVars, authVars, clawVars>>
  /\ UNCHANGED extVars

\* out-of-band edit of one column of one stored row
TamperField(i, field) ==
  /\ tampers = 0
  /\ i \in 1..Len(audit_log)
  /\ audit_log' = [audit_log EXCEPT ![i][field] = TamperValue(audit_log[i], field)]
  /\ tampers' = tampers + 1
  /\ UNCHANGED <<now, nextId, logpc, logprev, logparams, origin>>
  /\ UNCHANGED <<rateVars, authVars, clawVars>>
  /\ qres' = NoQueryResult
  /\ UNCHANGED extVars

\* out-of-band edit of one column, the row's own fingerprint rewritten to match
TamperRewrite(i, field) ==
  /\ tampers = 0
  /\ i \in 1..Len(audit_log)
  /\ LET edited == [audit_log[i] EXCEPT ![field] = TamperValue(audit_log[i], field)]
     IN audit_log' = [audit_log EXCEPT
                        ![i] = [edited EXCEPT !.fingerprint = computeFingerprint(edited)]]
  /\ tampers' = tampers + 1
  /\ UNCHANGED <<now, nextId, logpc, logprev, logparams, origin>>
  /\ UNCHANGED <<rateVars, authVars, clawVars>>
  /\ qres' = NoQueryResult
  /\ UNCHANGED extVars

\* out-of-band deletion of one stored row
TamperDelete(i) ==
  /\ tampers = 0
  /\ i \in 1..Len(audit_log)
  /\ audit_log' = RemoveAt(audit_log, i)
  /\ origin' = RemoveAt(origin, i)
  /\ tampers' = tampers + 1
  /\ UNCHANGED <<now, nextId, logpc, logprev, logparams>>
  /\ UNCHANGED <<rateVars, authVars, clawVars>>
  /\ qres' = NoQueryResult
  /\ UNCHANGED extVars

(***************************************************************************)
(* RateLimitService (application/services/audit.service, second half)      *)
(***************************************************************************)
DEFAULT_CONFIG == [maxRequests |-> 100, windowMs |-> 60000,
                   exponentialBackoff |-> TRUE, maxBackoffMs |-> 300000]

\* the policies the routes and the unit test pass to check
LoginPolicy == [maxRequests |-> 10, windowMs |-> 60000,
                exponentialBackoff |-> TRUE, maxBackoffMs |-> 300000]
TotpPolicy == [maxRequests |-> 5, windowMs |-> 60000,
               exponentialBackoff |-> TRUE, maxBackoffMs |-> 600000]
TestPolicy == [maxRequests |-> 3, windowMs |-> 60000,
               exponentialBackoff |-> FALSE, maxBackoffMs |-> 300000]

RECURSIVE Pow2(_)
Pow2(n) == IF n <= 0 THEN 1 ELSE 2 * Pow2(n - 1)

\* the row of (windowKey, window_start), windowKey being `${key}:${windowStart}`
RateRow(table, key, windowStart) ==
  {r \in table : r.key = <<key, windowStart>> /\ r.window_start = windowStart}

\* INSERT .. VALUES (windowKey, window_start, value)
\*   ON CONFLICT(key, window_start) DO UPDATE SET count = count + 1
RateUpsert(table, key, windowStart, value) ==
  LET hit == RateRow(table, key, windowStart)
  IN IF hit = {}
     THEN table \cup {[key |-> <<key, windowStart>>, window_start |-> windowStart,
                       count |-> value]}
     ELSE (table \ hit) \cup {[r EXCEPT !.count = r.count + 1] : r \in hit}

RateLimitCheck_offByOne(table, key, cfg, t) ==
  LET windowStart == (t \div cfg.windowMs) * cfg.windowMs
      cutoff == t - cfg.windowMs * 10
      kept == {r \in table : ~(r.window_start < cutoff)}
      existing == RateRow(kept, key, windowStart)
      count == (IF existing = {} THEN 0
                ELSE (CHOOSE r \in existing : TRUE).count) + 1
  IN IF count >= cfg.maxRequests
     THEN [table |-> RateUpsert(kept, key, windowStart, count), ok |-> FALSE,
           remaining |-> 0, resetAt |-> windowStart + cfg.windowMs,
           limit |-> cfg.maxRequests,
           retryAfter |-> CeilDiv(cfg.windowMs, 1000)]
     ELSE [table |-> RateUpsert(kept, key, windowStart, 1), ok |-> TRUE,
           remaining |-> Max(0, cfg.maxRequests - count),
           resetAt |-> windowStart + cfg.windowMs,
           limit |-> cfg.maxRequests, retryAfter |-> 0]

\* RateLimitService.check(key, cfg) at time t on the stored table: the new
\* table and either the returned {remaining, resetAt, limit} (ok) or the
\* raised RateLimitError(retryAfter seconds).
RateLimitCheck(table, key, cfg, t) ==
  LET windowStart == (t \div cfg.windowMs) * cfg.windowMs
      cutoff == t - cfg.windowMs * 10
      kept == {r \in table : ~(r.window_start < cutoff)}
      existing == RateRow(kept, key, windowStart)
      count == (IF existing = {} THEN 0
                ELSE (CHOOSE r \in existing : TRUE).count) + 1
      remaining == Max(0, cfg.maxRequests - count)
      resetAt == windowStart + cfg.windowMs
      overCount == count - cfg.maxRequests
      retryAfter == IF cfg.exponentialBackoff
                    THEN Min(cfg.maxBackoffMs,
                             cfg.windowMs * Pow2(overCount \div 10))
                    ELSE cfg.windowMs
  IN IF count > cfg.maxRequests
     THEN [table |-> RateUpsert(kept, key, windowStart, count), ok |-> FALSE,
           remaining |-> remaining, resetAt |-> resetAt,
           limit |-> cfg.maxRequests,
           retryAfter |-> CeilDiv(retryAfter, 1000)]
     ELSE [table |-> RateUpsert(kept, key, windowStart, 1), ok |-> TRUE,
           remaining |-> remaining, resetAt |-> resetAt,
           limit |-> cfg.maxRequests, retryAfter |-> 0]

\* RateLimitService.reset(key)
RateLimitReset(table, key) == {r \in table : r.key[1] # key}

(***************************************************************************)
(* Rate limiter actions.                                                   *)
(***************************************************************************)
MaxChecks == 7         \* check calls in the rate limiter specification
MaxRateTicks == 3      \* clock advances in the rate limiter specification
RateSteps == {30000, 600000}   \* how far one clock advance goes, ms

ClientIp == "10.0.0.1"
LoginKey == <<"login", ClientIp>>    \* `login:${ip}`
TotpKey == <<"totp", ClientIp>>      \* `totp:${ip}`
TestKey == <<"test-key", "">>        \* a key of the unit test
RateKeys == {TotpKey, TestKey}
PolicyOf(key) == IF key = TestKey THEN TestPolicy
                 ELSE IF key = TotpKey THEN TotpPolicy
                 ELSE LoginPolicy

RateInit ==
  /\ rate_limit_windows = {}
  /\ rlres = [valid |-> FALSE, key |-> TestKey, ok |-> TRUE, remaining |-> 0,
              resetAt |-> 0, limit |-> 0, retryAfter |-> 0, at |-> 0]
  /\ rlcalls = [perKey |-> [k \in RateKeys |-> [w |-> 0, n |-> 0]],
                total |-> 0, ticks |-> 0]

\* ghost bookkeeping of one check call on key at time t
NoteCall(calls, key, t) ==
  LET w == (t \div PolicyOf(key).windowMs) * PolicyOf(key).windowMs
      c == calls.perKey[key]
  IN [calls EXCEPT !.perKey[key] = [w |-> w, n |-> IF c.w = w THEN c.n + 1 ELSE 1],
                   !.total = @ + 1]

RateTick(d) ==
  /\ rlcalls.ticks < MaxRateTicks
  /\ now' = now + d
  /\ rlcalls' = [rlcalls EXCEPT !.ticks = @ + 1]
  /\ UNCHANGED <<nextId, rate_limit_windows, rlres, auditVars, authVars, clawVars>>
  /\ UNCHANGED extVars

\* RateLimitService.check(key, PolicyOf(key))
RateCheck(key) ==
  /\ rlcalls.total < MaxChecks
  /\ LET r == RateLimitCheck(rate_limit_windows, key, PolicyOf(key), now)
     IN /\ rate_limit_windows' = r.table
        /\ rlres' = [valid |-> TRUE, key |-> key, ok |-> r.ok,
                     remaining |-> r.remaining, resetAt |-> r.resetAt,
                     limit |-> r.limit, retryAfter |-> r.retryAfter, at |-> now]
  /\ rlcalls' = NoteCall(rlcalls, key, now)
  /\ UNCHANGED <<now, nextId, auditVars, authVars, clawVars>>
  /\ UNCHANGED extVars

\* a caller of check that passes a window of one second
ShortKey == <<"short-key", "">>
ShortPolicy == [maxRequests |-> 3, windowMs |-> 1000,
                exponentialBackoff |-> FALSE, maxBackoffMs |-> 300000]

\* RateLimitService.check(key, cfg) with the policy given by the caller
RateCheckWith(key, cfg) ==
  /\ rlcalls.total < MaxChecks
  /\ LET r == RateLimitCheck(rate_limit_windows, key, cfg, now)
     IN /\ rate_limit_windows' = r.table
        /\ rlres' = [valid |-> TRUE, key |-> key, ok |-> r.ok,
                     remaining |-> r.remaining, resetAt |-> r.resetAt,
                     limit |-> r.limit, retryAfter |-> r.retryAfter, at |-> now]
  /\ rlcalls' = [rlcalls EXCEPT !.total = @ + 1]
  /\ UNCHANGED <<now, nextId, auditVars, authVars, clawVars>>
  /\ UNCHANGED extVars

(***************************************************************************)
(* CryptoService (application/services/crypto.service): password hashing    *)
(***************************************************************************)
\* scrypt as a collision-free function of (password, salt)
Scrypt(password, salt) == <<"scrypt", password, salt>>

\* `${salt}:${hash}` with a fresh random salt
hashPassword(password, salt) == <<salt, Scrypt(password, salt)>>

verifyPassword(password, stored) == Scrypt(password, stored[1]) = stored[2]

(***************************************************************************)
(* User (domain/auth/user.entity)                                           *)
(***************************************************************************)
BACKUP_CODE_COUNT == 10
NoSecret == 0          \* totpSecret: null
NoDate == -1           \* lastLoginAt: null

UserCreate(props, t) ==
  [id |-> props.id, email |-> props.email, name |-> props.name,
   passwordHash |-> props.passwordHash, role |-> props.role,
   totpSecret |-> props.totpSecret, totpEnabled |-> props.totpEnabled,
   backupCodes |-> props.backupCodes,
   createdAt |-> t, updatedAt |-> t, lastLoginAt |-> NoDate]

enableTotp(user, secret, backupCodes, t) ==
  [user EXCEPT !.totpSecret = secret, !.totpEnabled = TRUE,
               !.backupCodes = backupCodes, !.updatedAt = t]

recordLogin(user, t) == [user EXCEPT !.lastLoginAt = t, !.updatedAt = t]

updatePassword(user, passwordHash, t) ==
  [user EXCEPT !.passwordHash = passwordHash, !.updatedAt = t]

\* /^[^\s@]+@[^\s@]+\.[^\s@]+$/ on the addresses of the model
validateEmail(email) == email # "not-an-email"

useBackupCode_keep(user, code, t) == [user EXCEPT !.updatedAt = t]

useBackupCode(user, code, t) ==
  [user EXCEPT !.backupCodes = SelectSeq(user.backupCodes, LAMBDA c : c # code),
               !.updatedAt = t]

(***************************************************************************)
(* SqliteUserRepository (infrastructure/database/user.repository)           *)
(***************************************************************************)
UserFindById(table, id) == {table[i] : i \in {j \in DOMAIN table : j = id}}

\* email.toLowerCase() on the addresses of the model
ToLowerCase(email) ==
  IF email = "New@Peanut.local" THEN "new@peanut.local" ELSE email

\* SELECT * FROM users WHERE email = lower-cased address
UserFindByEmail(table, email) ==
  {table[i] : i \in {j \in DOMAIN table : table[j].email = ToLowerCase(email)}}

\* users.email is UNIQUE: an INSERT or UPDATE that would give the address of
\* another row fails
UserSaveViolates(table, user) ==
  \E i \in DOMAIN table : i # user.id /\ table[i].email = ToLowerCase(user.email)

\* INSERT .. ON CONFLICT(id) DO UPDATE: every column but created_at is replaced
UserSave(table, user) ==
  LET row == [user EXCEPT !.email = ToLowerCase(user.email)]
  IN IF user.id \in DOMAIN table
     THEN [table EXCEPT ![user.id] = [row EXCEPT !.createdAt = table[user.id].createdAt]]
     ELSE [i \in DOMAIN table \cup {user.id} |-> IF i = user.id THEN row ELSE table[i]]

(***************************************************************************)
(* AuthService (application/services/auth.service): intermediate tokens     *)
(***************************************************************************)
TempTokenTtlMs == 600000

\* base64url(JSON.stringify({sub, exp, nonce})): an encoding anyone can
\* compute and invert; the token carries no signature.
Base64UrlJson(payload) == <<"base64url-json", payload>>

generateTempToken(userId, t, nonce) ==
  Base64UrlJson([sub |-> userId, exp |-> t + TempTokenTtlMs, nonce |-> nonce])

\* validateTempToken: the user id the token names, or "" when
\* UnauthorizedError('Invalid temp token') is raised
validateTempToken(token, t) ==
  IF token[1] # "base64url-json" THEN ""
  ELSE IF token[2].exp < t THEN ""
  ELSE token[2].sub

(***************************************************************************)
(* otplib authenticator (external library): RFC 6238 codes, 30 s step       *)
(***************************************************************************)
TotpCode(secret, t) == <<"totp", secret, t \div 30000>>
AuthenticatorVerify(token, secret, t) == token = TotpCode(secret, t)

\* an 8-hex backup code minted from a fresh random value
BackupCode(n) == <<"backup", n>>

(***************************************************************************)
(* AuthService (application/services/auth.service): operations              *)
(* Each operation maps the stored state (users, audit_log, the source of   *)
(* random values) to the state it leaves and to what it returns or raises. *)
(***************************************************************************)
NoToken == <<"none", [sub |-> "", exp |-> 0, nonce |-> 0]>>

Raised(us, log, nid, code, message) ==
  [users |-> us, audit_log |-> log, nextId |-> nid, ok |-> FALSE,
   code |-> code, message |-> message, requireTotp |-> FALSE,
   tempToken |-> NoToken, userId |-> "", usedBackupCode |-> FALSE,
   secret |-> NoSecret, backupCodes |-> <<>>]

Returned(us, log, nid, userId) ==
  [users |-> us, audit_log |-> log, nextId |-> nid, ok |-> TRUE,
   code |-> "", message |-> "", requireTotp |-> FALSE,
   tempToken |-> NoToken, userId |-> userId, usedBackupCode |-> FALSE,
   secret |-> NoSecret, backupCodes |-> <<>>]

UserAudit(action, userId, userEmail, ipAddress, userAgent, resourceId, details) ==
  [action |-> action, userId |-> userId, userEmail |-> userEmail,
   ipAddress |-> ipAddress, userAgent |-> userAgent, resourceType |-> "user",
   resourceId |-> resourceId, details |-> details]

UnknownUser == "unknown"

AuthLogin_skipTotp(us, log, nid, email, password, ipAddress, userAgent, t) ==
  LET found == UserFindByEmail(us, email)
      user == CHOOSE u \in found : TRUE
      saved == UserSave(us, recordLogin(user, t))
  IN IF found = {} \/ ~verifyPassword(password, user.passwordHash)
     THEN Raised(us, log, nid, "UNAUTHORIZED", "Invalid email or password")
     ELSE Returned(saved,
            AuditLog(log, HexId(nid), UserAudit("auth.login", user.id, user.email,
                       ipAddress, userAgent, user.id,
                       << <<"method", "password">> >>), t),
            nid + 1, user.id)

AuthLogin(us, log, nid, email, password, ipAddress, userAgent, t) ==
  LET found == UserFindByEmail(us, email)
      user == CHOOSE u \in found : TRUE
      saved == UserSave(us, recordLogin(user, t))
  IN IF found = {}
     THEN Raised(us,
            AuditLog(log, HexId(nid), UserAudit("auth.login_failed", UnknownUser, email,
                       ipAddress, userAgent, UnknownUser,
                       << <<"reason", "user_not_found">> >>), t),
            nid + 1, "UNAUTHORIZED", "Invalid email or password")
     ELSE IF ~verifyPassword(password, user.passwordHash)
     THEN Raised(us,
            AuditLog(log, HexId(nid), UserAudit("auth.login_failed", user.id, user.email,
                       ipAddress, userAgent, user.id,
                       << <<"reason", "invalid_password">> >>), t),
            nid + 1, "UNAUTHORIZED", "Invalid email or password")
     ELSE IF user.totpEnabled
     THEN [Returned(saved, log, nid + 1, user.id) EXCEPT
             !.requireTotp = TRUE,
             !.tempToken = generateTempToken(user.id, t, nid)]
     ELSE Returned(saved,
            AuditLog(log, HexId(nid), UserAudit("auth.login", user.id, user.email,
                       ipAddress, userAgent, user.id,
                       << <<"method", "password">> >>), t),
            nid + 1, user.id)

AuthVerifyTotp(us, log, nid, tempToken, totpCode, ipAddress, userAgent, t) ==
  LET userId == validateTempToken(tempToken, t)
      found == UserFindById(us, userId)
      user == CHOOSE u \in found : TRUE
      isBackupCode == totpCode \in Range(user.backupCodes)
      saved == IF isBackupCode THEN UserSave(us, useBackupCode(user, totpCode, t)) ELSE us
  IN IF userId = ""
     THEN Raised(us, log, nid, "UNAUTHORIZED", "Invalid temp token")
     ELSE IF found = {} \/ ~user.totpEnabled \/ user.totpSecret = NoSecret
     THEN Raised(us, log, nid, "UNAUTHORIZED", "TOTP not configured")
     ELSE IF ~isBackupCode /\ ~AuthenticatorVerify(totpCode, user.totpSecret, t)
     THEN Raised(us, log, nid, "UNAUTHORIZED", "Invalid TOTP code")
     ELSE [Returned(saved,
             AuditLog(log, HexId(nid), UserAudit("auth.login", user.id, user.email,
                        ipAddress, userAgent, user.id,
                        << <<"method", "totp">>,
                           <<"usedBackupCode", IF isBackupCode THEN "true" ELSE "false">> >>), t),
             nid + 1, user.id) EXCEPT !.usedBackupCode = isBackupCode]

\* the secret is nid, the backup codes are nid+1 .. nid+BACKUP_CODE_COUNT, the
\* audit entry id follows
AuthSetupTotp(us, log, nid, userId, t) ==
  LET found == UserFindById(us, userId)
      user == CHOOSE u \in found : TRUE
      secret == nid
      backupCodes == [k \in 1..BACKUP_CODE_COUNT |-> BackupCode(nid + k)]
      auditId == nid + BACKUP_CODE_COUNT + 1
  IN IF found = {}
     THEN Raised(us, log, nid, "NOT_FOUND", "User not found")
     ELSE [Returned(UserSave(us, enableTotp(user, secret, backupCodes, t)),
             AuditLog(log, HexId(auditId), UserAudit("auth.totp_enabled", user.id, user.email,
                        "internal", "system", user.id, <<>>), t),
             auditId + 1, user.id) EXCEPT
             !.secret = secret, !.backupCodes = backupCodes]

AuthGetUserById(us, id) == UserFindById(us, id)

MinPasswordLength == 12

\* AuthService.createUser up to its save: the lookup by address, the length
\* rule, the hash (salt nid) and User.create (id nid + 1).  The result either
\* raises or holds the user that is about to be saved.
AuthCreateUserPrepare_noLookup(us, nid, email, name, password, role, t) ==
  IF Len(password) < MinPasswordLength
  THEN [ok |-> FALSE, code |-> "VALIDATION_ERROR", nextId |-> nid, user |-> << >>]
  ELSE IF ~validateEmail(email)
  THEN [ok |-> FALSE, code |-> "VALIDATION_ERROR", nextId |-> nid + 2, user |-> << >>]
  ELSE [ok |-> TRUE, code |-> "", nextId |-> nid + 2,
        user |-> << UserCreate([id |-> HexId(nid + 1), email |-> email, name |-> name,
                               passwordHash |-> hashPassword(password, nid),
                               role |-> role, totpSecret |-> NoSecret,
                               totpEnabled |-> FALSE, backupCodes |-> <<>>], t) >>]

AuthCreateUserPrepare(us, nid, email, name, password, role, t) ==
  IF UserFindByEmail(us, email) # {}
  THEN [ok |-> FALSE, code |-> "CONFLICT", nextId |-> nid, user |-> << >>]
  ELSE IF Len(password) < MinPasswordLength
  THEN [ok |-> FALSE, code |-> "VALIDATION_ERROR", nextId |-> nid, user |-> << >>]
  ELSE IF ~validateEmail(email)
  THEN [ok |-> FALSE, code |-> "VALIDATION_ERROR", nextId |-> nid + 2, user |-> << >>]
  ELSE [ok |-> TRUE, code |-> "", nextId |-> nid + 2,
        user |-> << UserCreate([id |-> HexId(nid + 1), email |-> email, name |-> name,
                               passwordHash |-> hashPassword(password, nid),
                               role |-> role, totpSecret |-> NoSecret,
                               totpEnabled |-> FALSE, backupCodes |-> <<>>], t) >>]

AuthChangePassword_anyCurrent(us, log, nid, userId, currentPassword, newPassword, t) ==
  LET found == UserFindById(us, userId)
      user == CHOOSE u \in found : TRUE
      newHash == hashPassword(newPassword, nid)
  IN IF found = {}
     THEN Raised(us, log, nid, "NOT_FOUND", "User not found")
     ELSE IF Len(newPassword) < MinPasswordLength
     THEN Raised(us, log, nid, "VALIDATION_ERROR", "Password must be at least 12 characters")
     ELSE Returned(UserSave(us, updatePassword(user, newHash, t)),
            AuditLog(log, HexId(nid + 1), UserAudit("auth.password_changed", user.id,
                       user.email, "internal", "system", user.id, <<>>), t),
            nid + 2, user.id)

\* AuthService.changePassword: the salt of the new hash is nid, the id of the
\* audit entry follows
AuthChangePassword(us, log, nid, userId, currentPassword, newPassword, t) ==
  LET found == UserFindById(us, userId)
      user == CHOOSE u \in found : TRUE
      newHash == hashPassword(newPassword, nid)
  IN IF found = {}
     THEN Raised(us, log, nid, "NOT_FOUND", "User not found")
     ELSE IF Len(newPassword) < MinPasswordLength
     THEN Raised(us, log, nid, "VALIDATION_ERROR", "Password must be at least 12 characters")
     ELSE IF ~verifyPassword(currentPassword, user.passwordHash)
     THEN Raised(us, log, nid, "UNAUTHORIZED", "Current password is incorrect")
     ELSE Returned(UserSave(us, updatePassword(user, newHash, t)),
            AuditLog(log, HexId(nid + 1), UserAudit("auth.password_changed", user.id,
                       user.email, "internal", "system", user.id, <<>>), t),
            nid + 2, user.id)

(***************************************************************************)
(* Auth routes (interfaces/http/routes/auth.routes) and the seeded state    *)
(***************************************************************************)
MaxLogins == 2         \* POST /auth/login requests
MaxVerifies == 2       \* POST /auth/totp/verify requests
MaxSetups == 1         \* POST /auth/totp/setup requests
MaxAuthTicks == 1      \* clock advances in the auth specification
MaxAuthOps == 6        \* requests and clock advances together in the auth specification
AuthSteps == {30000, 600001}   \* how far one clock advance goes, ms

SessionTtlMs == 28800000
AdminEmail == "admin@peanut.local"
SeedPassword == "PeanutAdmin@2024!"
UserAgentHeader == "ua"

NoCookie == [sub |-> "", email |-> "", role |-> "", totpVerified |-> FALSE,
             sessionId |-> 0, iat |-> 0, exp |-> 0]

\* fastify.jwt.sign(payload, {expiresIn: '8h'})
JwtSign(user, totpVerified, sessionId, t) ==
  [sub |-> user.id, email |-> user.email, role |-> user.role,
   totpVerified |-> totpVerified, sessionId |-> sessionId,
   iat |-> t, exp |-> t + SessionTtlMs]

\* fastify.authenticate: the cookie verifies against the server's key and has
\* not expired
Authenticate(cookie, signed, t) == cookie \in signed /\ t < cookie.exp

Response(route, status, code, message) ==
  [route |-> route, status |-> status, code |-> code, message |-> message,
   requireTotp |-> FALSE, tempToken |-> NoToken, cookie |-> NoCookie,
   totpEnabled |-> FALSE, reqToken |-> NoToken, reqCode |-> <<"none">>,
   headers |-> {}]

\* new RateLimitError(retryAfter)
RateLimitError(retryAfter) ==
  [name |-> "RateLimitError", statusCode |-> 429, code |-> "RATE_LIMIT_EXCEEDED",
   message |-> "Rate limit exceeded", retryAfter |-> retryAfter]

\* fastify.setErrorHandler on a DomainError:
\* reply.code(error.statusCode).send({error: {code, message}})
setErrorHandler(route, error) ==
  Response(route, error.statusCode, error.code, error.message)

\* buildApp: the database is empty and the default admin is created
AuthInit ==
  /\ users = [i \in {HexId(1)} |->
                UserCreate([id |-> HexId(1), email |-> AdminEmail,
                            name |-> "Administrator",
                            passwordHash |-> hashPassword(SeedPassword, 2),
                            role |-> "admin", totpSecret |-> NoSecret,
                            totpEnabled |-> FALSE, backupCodes |-> <<>>], 0)]
  /\ minted = {}
  /\ sessions = {}
  /\ resp = Response("none", 0, "", "")
  /\ consumed = {}
  /\ issued = <<>>
  /\ authops = [logins |-> 0, verifies |-> 0, setups |-> 0, ticks |-> 0]

LoginBodies ==
  { [email |-> AdminEmail, password |-> SeedPassword],
    [email |-> AdminEmail, password |-> "wrong-password"],
    [email |-> "nobody@peanut.local", password |-> SeedPassword],
    [email |-> AdminEmail, password |-> ""] }

\* intermediate tokens a client can present: the ones login returned, one it
\* assembled itself for the admin's id, and one that does not decode
ForgedToken == Base64UrlJson([sub |-> HexId(1), exp |-> 2000000000, nonce |-> 0])
MalformedToken == <<"garbage", [sub |-> "", exp |-> 0, nonce |-> 0]>>
PresentedTokens == minted \cup {ForgedToken, MalformedToken}

\* codes a client can present: what the admin's authenticator shows now, a
\* wrong 6-digit code, the first backup code of the last setup, and a code of
\* the wrong length
PresentedCodes ==
  {TotpCode(users[HexId(1)].totpSecret, now), <<"totp", 0, 0>>, <<"x">>}
    \cup {issued[k] : k \in 1..Min(1, Len(issued))}

\* requests made and clock advances so far
AuthOps == authops.logins + authops.verifies + authops.setups + authops.ticks

AuthTick(d) ==
  /\ authops.ticks < MaxAuthTicks
  /\ AuthOps < MaxAuthOps
  /\ now' = now + d
  /\ authops' = [authops EXCEPT !.ticks = @ + 1]
  /\ UNCHANGED <<nextId, users, minted, sessions, resp, consumed, issued,
                 auditVars, rateVars, clawVars>>
  /\ UNCHANGED extVars

\* POST /auth/login
LoginRequest(body) ==
  /\ authops' = [authops EXCEPT !.logins = @ + 1]
  /\ LET rl == RateLimitCheck(rate_limit_windows, LoginKey, LoginPolicy, now)
         r == AuthLogin(users, audit_log, nextId, body.email, body.password,
                        ClientIp, UserAgentHeader, now)
         user == CHOOSE u \in AuthGetUserById(r.users, r.userId) : TRUE
         token == JwtSign(user, FALSE, r.nextId, now)
     IN /\ rate_limit_windows' = rl.table
        /\ IF ~rl.ok
           THEN /\ resp' = setErrorHandler("login", RateLimitError(rl.retryAfter))
                /\ UNCHANGED <<users, audit_log, nextId, minted, sessions>>
           ELSE IF body.password = ""
           THEN /\ resp' = Response("login", 422, "VALIDATION_ERROR", "Validation failed")
                /\ UNCHANGED <<users, audit_log, nextId, minted, sessions>>
           ELSE /\ users' = r.users
                /\ audit_log' = r.audit_log
                /\ IF ~r.ok
                   THEN /\ resp' = Response("login", 401, r.code, r.message)
                        /\ nextId' = r.nextId
                        /\ UNCHANGED <<minted, sessions>>
                   ELSE IF r.requireTotp
                   THEN /\ resp' = [Response("login", 200, "", "") EXCEPT
                                      !.requireTotp = TRUE, !.tempToken = r.tempToken]
                        /\ minted' = minted \cup {r.tempToken}
                        /\ nextId' = r.nextId
                        /\ UNCHANGED sessions
                   ELSE /\ resp' = [Response("login", 200, "", "") EXCEPT
                                      !.cookie = token,
                                      !.totpEnabled = user.totpEnabled]
                        /\ sessions' = sessions \cup {token}
                        /\ nextId' = r.nextId + 1
                        /\ UNCHANGED minted
  /\ UNCHANGED <<now, rlres, rlcalls, consumed, issued, qres, logpc, logprev,
                 logparams, origin, tampers, clawVars>>
  /\ UNCHANGED extVars

\* POST /auth/login, within the bounds of the auth specification
LoginRoute(body) ==
  /\ authops.logins < MaxLogins
  /\ AuthOps < MaxAuthOps
  /\ LoginRequest(body)

MaxFloodLogins == 11   \* POST /auth/login requests of one client in a row

\* the bodies of a client that keeps guessing
FloodBodies == {b \in LoginBodies : b.password # "" /\ b.password # SeedPassword}
                 \cup {b \in LoginBodies : b.email # AdminEmail}

\* POST /auth/login by a client that keeps guessing
FloodLogin(body) ==
  /\ authops.logins < MaxFloodLogins
  /\ LoginRequest(body)

\* POST /auth/totp/verify
TotpVerifyRoute(tempToken, totpCode) ==
  /\ authops.verifies < MaxVerifies
  /\ AuthOps < MaxAuthOps
  /\ authops' = [authops EXCEPT !.verifies = @ + 1]
  /\ LET rl == RateLimitCheck(rate_limit_windows, TotpKey, TotpPolicy, now)
         r == AuthVerifyTotp(users, audit_log, nextId, tempToken, totpCode,
                             ClientIp, UserAgentHeader, now)
         user == CHOOSE u \in AuthGetUserById(r.users, r.userId) : TRUE
         token == JwtSign(user, TRUE, r.nextId, now)
         echo == [Response("totp", 0, "", "") EXCEPT
                    !.reqToken = tempToken, !.reqCode = totpCode]
     IN /\ rate_limit_windows' = rl.table
        /\ IF ~rl.ok
           THEN /\ resp' = [echo EXCEPT !.status = 429, !.code = "RATE_LIMIT_EXCEEDED",
                                        !.message = "Rate limit exceeded"]
                /\ UNCHANGED <<users, audit_log, nextId, sessions, consumed>>
           ELSE IF totpCode[1] \notin {"totp", "backup"}
           THEN /\ resp' = [echo EXCEPT !.status = 422, !.code = "VALIDATION_ERROR",
                                        !.message = "Validation failed"]
                /\ UNCHANGED <<users, audit_log, nextId, sessions, consumed>>
           ELSE /\ users' = r.users
                /\ audit_log' = r.audit_log
                /\ IF ~r.ok
                   THEN /\ resp' = [echo EXCEPT !.status = 401, !.code = r.code,
                                                !.message = r.message]
                        /\ nextId' = r.nextId
                        /\ UNCHANGED <<sessions, consumed>>
                   ELSE /\ resp' = [echo EXCEPT !.status = 200, !.cookie = token,
                                                !.totpEnabled = user.totpEnabled]
                        /\ sessions' = sessions \cup {token}
                        /\ nextId' = r.nextId + 1
                        /\ consumed' = IF r.usedBackupCode
                                       THEN consumed \cup {totpCode} ELSE consumed
  /\ UNCHANGED <<now, rlres, rlcalls, minted, issued, qres, logpc, logprev,
                 logparams, origin, tampers, clawVars>>
  /\ UNCHANGED extVars

\* POST /auth/totp/setup
TotpSetupRoute(cookie) ==
  /\ authops.setups < MaxSetups
  /\ AuthOps < MaxAuthOps
  /\ authops' = [authops EXCEPT !.setups = @ + 1]
  /\ LET r == AuthSetupTotp(users, audit_log, nextId, cookie.sub, now)
     IN IF ~Authenticate(cookie, sessions, now)
        THEN /\ resp' = Response("setup", 401, "UNAUTHORIZED", "Authentication required")
             /\ UNCHANGED <<users, audit_log, nextId, issued>>
        ELSE /\ users' = r.users
             /\ audit_log' = r.audit_log
             /\ nextId' = r.nextId
             /\ IF ~r.ok
                THEN /\ resp' = Response("setup", 404, r.code, r.message)
                     /\ UNCHANGED issued
                ELSE /\ resp' = Response("setup", 200, "", "")
                     /\ issued' = r.backupCodes
  /\ UNCHANGED <<now, rateVars, minted, sessions, consumed, qres, logpc, logprev,
                 logparams, origin, tampers, clawVars>>
  /\ UNCHANGED extVars

(***************************************************************************)
(* OpenClawService (application/services/openclaw.service): selection       *)
(***************************************************************************)
MaxAgents == 3         \* agents in the cached healthy list
MaxWeight == 5         \* largest weight drawn for an agent
MaxRounds == 2         \* selections made: MaxRounds times the total weight

RECURSIVE SumWeights(_)
SumWeights(was) ==
  IF Len(was) = 0 THEN 0 ELSE was[1].agent.weight + SumWeights(Tail(was))

\* the position of the first entry whose currentWeight is the largest
FirstBest(was) ==
  CHOOSE b \in 1..Len(was) :
    /\ \A k \in 1..Len(was) : was[k].currentWeight <= was[b].currentWeight
    /\ \A k \in 1..(b - 1) : was[k].currentWeight < was[b].currentWeight

weightedRoundRobin_ownWeight(was) ==
  LET bumped == [k \in 1..Len(was) |->
                   [was[k] EXCEPT !.currentWeight = @ + was[k].agent.weight]]
      best == FirstBest(bumped)
  IN [weightedAgents |-> [bumped EXCEPT ![best].currentWeight =
                                            @ - bumped[best].agent.weight],
      agent |-> bumped[best].agent]

\* weightedRoundRobin on a non-empty list: the list it leaves and the agent
\* it returns
weightedRoundRobin(was) ==
  LET total == SumWeights(was)
      bumped == [k \in 1..Len(was) |->
                   [was[k] EXCEPT !.currentWeight = @ + was[k].agent.weight]]
      best == FirstBest(bumped)
  IN [weightedAgents |-> [bumped EXCEPT ![best].currentWeight = @ - total],
      agent |-> bumped[best].agent]

(***************************************************************************)
(* OpenClawService: registry, health rows, cache and dispatch               *)
(***************************************************************************)
SYNC_INTERVAL_MS == 30000

\* the names operators register agents under, in ascending order
AgentNames == <<"alpha", "beta", "gamma">>
NameRank(name) == CHOOSE k \in 1..Len(AgentNames) : AgentNames[k] = name

\* String.prototype.trim on the names and models that requests carry
Trim(str) ==
  CASE str = "  " -> ""
    [] str = " " -> ""
    [] str = " a" -> "a"
    [] OTHER -> str

\* String.prototype.startsWith('http') on the endpoints that requests carry
StartsWithHttp(endpoint) ==
  endpoint \in {"http://alpha:11434", "http://beta:11434", "https://gamma", "httpx"}

\* whether new URL(endpoint) parses, on the endpoints that requests carry
ParsesAsUrl(endpoint) ==
  endpoint \in {"http://alpha:11434", "http://beta:11434", "https://gamma", "ftp://files"}

\* Agent.validate: the message of the ValidationError it throws, "" when it
\* returns.  Temperatures are counted in tenths.
AgentValidate(props) ==
  CASE props.name = "" \/ Len(Trim(props.name)) < 2 ->
         "Agent name must be at least 2 characters"
    [] props.endpoint = "" \/ ~StartsWithHttp(props.endpoint) ->
         "Agent endpoint must be a valid HTTP/HTTPS URL"
    [] props.model = "" \/ Len(Trim(props.model)) = 0 ->
         "Agent model is required"
    [] props.temperature < 0 \/ props.temperature > 20 ->
         "Temperature must be between 0 and 2"
    [] props.weight < 1 \/ props.weight > 100 ->
         "Weight must be between 1 and 100"
    [] props.priority < 1 \/ props.priority > 10 ->
         "Priority must be between 1 and 10"
    [] OTHER -> ""

AgentValid(props) == AgentValidate(props) = ""

\* dto.f === undefined
Absent(dto, f) == f \notin DOMAIN dto

\* dto.f ?? fallback
OrElse(dto, f, fallback) == IF Absent(dto, f) THEN fallback ELSE dto[f]

\* Agent.create from a CreateAgentDto, with the defaults of createAgent
AgentCreate(id, dto, t) ==
  [id |-> id, name |-> dto.name, type |-> dto.type, endpoint |-> dto.endpoint,
   model |-> dto.model, maxTokens |-> OrElse(dto, "maxTokens", 4096),
   temperature |-> OrElse(dto, "temperature", 0),
   priority |-> OrElse(dto, "priority", 5), weight |-> OrElse(dto, "weight", 10),
   createdAt |-> t, updatedAt |-> t]

\* Agent.update: the row with the updates merged in
AgentUpdate(agent, updates, t) ==
  [id |-> agent.id, name |-> OrElse(updates, "name", agent.name),
   type |-> agent.type, endpoint |-> OrElse(updates, "endpoint", agent.endpoint),
   model |-> OrElse(updates, "model", agent.model),
   maxTokens |-> OrElse(updates, "maxTokens", agent.maxTokens),
   temperature |-> OrElse(updates, "temperature", agent.temperature),
   priority |-> OrElse(updates, "priority", agent.priority),
   weight |-> OrElse(updates, "weight", agent.weight),
   createdAt |-> agent.createdAt, updatedAt |-> t]

\* SqliteAgentRepository
AgentFindById(table, id) == {table[i] : i \in {j \in DOMAIN table : j = id}}

AgentSave(table, agent) ==
  IF agent.id \in DOMAIN table
  THEN [table EXCEPT ![agent.id] = [agent EXCEPT !.createdAt = table[agent.id].createdAt]]
  ELSE [i \in DOMAIN table \cup {agent.id} |-> IF i = agent.id THEN agent ELSE table[i]]

AgentDelete(table, id) == [i \in DOMAIN table \ {id} |-> table[i]]

\* ORDER BY priority DESC, name ASC
AgentOrderedBefore(a, b) ==
  \/ a.priority > b.priority
  \/ a.priority = b.priority /\ NameRank(a.name) < NameRank(b.name)

AgentFindAll(table) ==
  [k \in 1..Cardinality(DOMAIN table) |->
     CHOOSE a \in Range2(table) :
       Cardinality({b \in Range2(table) : AgentOrderedBefore(b, a)}) = k - 1]

\* SqliteAgentHealthRepository; success_rate is kept as <<numerator, denominator>>
HealthGet(table, id) == {table[i] : i \in {j \in DOMAIN table : j = id}}

HealthUpdate(table, health) ==
  [i \in DOMAIN table \cup {health.agentId} |->
     IF i = health.agentId THEN health ELSE table[i]]

\* ON DELETE CASCADE of agent_health.agent_id
HealthCascade(table, id) == [i \in DOMAIN table \ {id} |-> table[i]]

HealthRecord(agentId, status, latencyMs, successRate, requestCount, errorCount, t, details) ==
  [agentId |-> agentId, status |-> status, latencyMs |-> latencyMs,
   successRate |-> successRate, requestCount |-> requestCount,
   errorCount |-> errorCount, lastCheckedAt |-> t, details |-> details]

\* syncAgentsIfNeeded: the cache and lastSync it leaves at time t
syncAgentsIfNeeded_anyStatus(was, last, table, health, t) ==
  IF t - last < SYNC_INTERVAL_MS
  THEN [weightedAgents |-> was, lastSync |-> last, loaded |-> FALSE]
  ELSE LET all == AgentFindAll(table)
       IN [weightedAgents |-> [k \in 1..Len(all) |-> [agent |-> all[k], currentWeight |-> 0]],
           lastSync |-> t, loaded |-> TRUE]

syncAgentsIfNeeded(was, last, table, health, t) ==
  IF t - last < SYNC_INTERVAL_MS
  THEN [weightedAgents |-> was, lastSync |-> last, loaded |-> FALSE]
  ELSE LET all == AgentFindAll(table)
           healthy == SelectSeq(all, LAMBDA a :
                        \E h \in HealthGet(health, a.id) : h.status = "online")
       IN [weightedAgents |-> [k \in 1..Len(healthy) |->
                                 [agent |-> healthy[k], currentWeight |-> 0]],
           lastSync |-> t, loaded |-> TRUE]

\* invalidateCache
invalidateCache == 0

\* getSpecificAgent: the agents found under the id (none: NotFoundError)
getSpecificAgent_onlineOnly(table, health, id) ==
  {a \in AgentFindById(table, id) :
     \E h \in HealthGet(health, a.id) : h.status = "online"}

getSpecificAgent(table, health, id) == AgentFindById(table, id)

\* updateAgentMetrics: the health row written after a call
updateAgentMetrics_staleRate(health, agentId, success, latencyMs, t) ==
  LET existing == HealthGet(health, agentId)
      old == CHOOSE h \in existing : TRUE
      oldRequests == IF existing = {} THEN 0 ELSE old.requestCount
      oldErrors == IF existing = {} THEN 0 ELSE old.errorCount
      requestCount == oldRequests + 1
      errorCount == oldErrors + (IF success THEN 0 ELSE 1)
  IN HealthRecord(agentId, IF success THEN "online" ELSE "degraded", latencyMs,
                  <<oldRequests - oldErrors, requestCount>>, requestCount, errorCount, t,
                  IF success THEN "Last request: " \o ToString(latencyMs) \o "ms"
                  ELSE "Last request failed")

updateAgentMetrics(health, agentId, success, latencyMs, t) ==
  LET existing == HealthGet(health, agentId)
      old == CHOOSE h \in existing : TRUE
      requestCount == (IF existing = {} THEN 0 ELSE old.requestCount) + 1
      errorCount == (IF existing = {} THEN 0 ELSE old.errorCount)
                      + (IF success THEN 0 ELSE 1)
  IN HealthRecord(agentId, IF success THEN "online" ELSE "degraded", latencyMs,
                  <<requestCount - errorCount, requestCount>>, requestCount, errorCount, t,
                  IF success THEN "Last request: " \o ToString(latencyMs) \o "ms"
                  ELSE "Last request failed")

\* what dispatch does after a backend call that succeeded, in this order
DispatchOrder_auditFirst == <<"audit", "metrics", "return">>

DispatchOrder == <<"metrics", "audit", "return">>

TokensUsed == 15       \* prompt_eval_count + eval_count of the backend's answer
Actor == [id |-> "u1", email |-> "u@test.com"]

NoDispatch == [pc |-> "idle", named |-> FALSE, agentId |-> "", requestId |-> "",
               startTime |-> 0, latencyMs |-> 0, step |-> 0, trace |-> <<>>,
               alone |-> TRUE, health0 |-> {}, thrown |-> ""]

NoDispatchResult == [valid |-> FALSE, ok |-> FALSE, code |-> "", named |-> FALSE,
                     asked |-> "", agentId |-> "", requestId |-> "", latencyMs |-> 0]

DispatchRaised(code, named, asked, agentId, requestId) ==
  [NoDispatchResult EXCEPT !.valid = TRUE, !.code = code, !.named = named,
                           !.asked = asked, !.agentId = agentId,
                           !.requestId = requestId]

\* new OpenClawService(..) over empty agents and agent_health tables
ClawInit ==
  /\ weightedAgents = <<>>
  /\ selections = <<>>
  /\ agents = <<>>
  /\ agent_health = <<>>
  /\ lastSync = 0
  /\ disp = NoDispatch
  /\ dres = NoDispatchResult
  /\ cacheload = [agents |-> <<>>, agent_health |-> <<>>, loads |-> 0]
  /\ clawops = [creates |-> 0, checks |-> 0, dispatches |-> 0, deletes |-> 0,
                ticks |-> 0, calls |-> 0, metrics |-> 0]

AgentIds == <<"a1", "a2", "a3", "a4">>

\* a freshly loaded cache over a healthy set with weights drawn from 1..MaxWeight
FreshCaches ==
  UNION { { [k \in 1..n |-> [agent |-> [id |-> AgentIds[k], weight |-> ws[k]],
                             currentWeight |-> 0]] :
              ws \in [1..n -> 1..MaxWeight] } : n \in 1..MaxAgents }

\* one weighted selection on the cached list
WrrSelect ==
  /\ Len(weightedAgents) > 0
  /\ Len(selections) < MaxRounds * SumWeights(weightedAgents)
  /\ LET r == weightedRoundRobin(weightedAgents)
     IN /\ weightedAgents' = r.weightedAgents
        /\ selections' = Append(selections, r.agent.id)
  /\ UNCHANGED <<now, nextId, auditVars, rateVars, authVars, agents, agent_health,
                 lastSync, disp, dres, cacheload, clawops>>
  /\ UNCHANGED extVars

(***************************************************************************)
(* OpenClawService actions.  A dispatch runs in steps, one per await of    *)
(* dispatch; the other operations run between them.                        *)
(***************************************************************************)
MaxCreates == 2        \* createAgent calls
MaxHealthChecks == 2   \* checkHealth calls
MaxDispatches == 2     \* dispatch calls
MaxDeletes == 1        \* deleteAgent calls
MaxClawTicks == 1      \* clock advances in the dispatch specification
MaxClawOps == 5        \* operations and clock advances together
ClawSteps == {1, 30000}   \* how far one clock advance goes, ms

AgentDtos ==
  { [name |-> "alpha", type |-> "ollama", endpoint |-> "http://alpha:11434",
     model |-> "llama3", priority |-> 5, weight |-> 1],
    [name |-> "beta", type |-> "ollama", endpoint |-> "http://beta:11434",
     model |-> "llama3", priority |-> 5, weight |-> 2] }

ClawOps == clawops.creates + clawops.checks + clawops.dispatches
             + clawops.deletes + clawops.ticks

\* another operation ran while a dispatch was in flight
Meddled(d) == IF d.pc = "idle" THEN d ELSE [d EXCEPT !.alone = FALSE]

AgentAudit(action, resourceId, details) ==
  [action |-> action, userId |-> Actor.id, userEmail |-> Actor.email,
   ipAddress |-> "internal", userAgent |-> "system", resourceType |-> "agent",
   resourceId |-> resourceId, details |-> details]

ClawTick(d) ==
  /\ clawops.ticks < MaxClawTicks
  /\ ClawOps < MaxClawOps
  /\ now' = now + d
  /\ clawops' = [clawops EXCEPT !.ticks = @ + 1]
  /\ UNCHANGED <<nextId, auditVars, rateVars, authVars, weightedAgents, selections,
                 agents, agent_health, lastSync, disp, dres, cacheload>>
  /\ UNCHANGED extVars

\* createAgent(dto, actor)
CreateAgent(dto) ==
  /\ clawops.creates < MaxCreates
  /\ ClawOps < MaxClawOps
  /\ \A a \in DOMAIN agents : agents[a].name # dto.name
  /\ AgentValid(AgentCreate(HexId(nextId), dto, now))
  /\ clawops' = [clawops EXCEPT !.creates = @ + 1]
  /\ LET agent == AgentCreate(HexId(nextId), dto, now)
     IN /\ agents' = AgentSave(agents, agent)
        /\ agent_health' = HealthUpdate(agent_health,
              HealthRecord(agent.id, "offline", 0, <<0, 1>>, 0, 0, now,
                           "Agent created, awaiting health check"))
        /\ audit_log' = AuditLog(audit_log, HexId(nextId + 1),
              AgentAudit("agent.created", agent.id,
                         << <<"name", agent.name>>, <<"type", agent.type>>,
                            <<"endpoint", agent.endpoint>> >>), now)
  /\ nextId' = nextId + 2
  /\ lastSync' = invalidateCache
  /\ disp' = Meddled(disp)
  /\ UNCHANGED <<now, qres, logpc, logprev, logparams, origin, tampers, rateVars,
                 authVars, weightedAgents, selections, dres, cacheload>>
  /\ UNCHANGED extVars

\* deleteAgent(id, actor)
DeleteAgent(id) ==
  /\ clawops.deletes < MaxDeletes
  /\ ClawOps < MaxClawOps
  /\ clawops' = [clawops EXCEPT !.deletes = @ + 1]
  /\ disp' = Meddled(disp)
  /\ IF AgentFindById(agents, id) = {}
     THEN UNCHANGED <<agents, agent_health, audit_log, nextId, lastSync>>
     ELSE /\ agents' = AgentDelete(agents, id)
          /\ agent_health' = HealthCascade(agent_health, id)
          /\ audit_log' = AuditLog(audit_log, HexId(nextId),
                AgentAudit("agent.deleted", id, << <<"name", agents[id].name>> >>), now)
          /\ nextId' = nextId + 1
          /\ lastSync' = invalidateCache
  /\ UNCHANGED <<now, qres, logpc, logprev, logparams, origin, tampers, rateVars,
                 authVars, weightedAgents, selections, dres, cacheload>>
  /\ UNCHANGED extVars

\* checkHealth(agentId): the probe answers 2xx ("ok"), another status ("bad")
\* or the connection fails ("unreachable")
CheckHealth(id, probe) ==
  /\ clawops.checks < MaxHealthChecks
  /\ ClawOps < MaxClawOps
  /\ clawops' = [clawops EXCEPT !.checks = @ + 1]
  /\ disp' = Meddled(disp)
  /\ IF AgentFindById(agents, id) = {}
     THEN UNCHANGED agent_health
     ELSE LET found == HealthGet(agent_health, id)
              existing == IF found = {}
                          THEN [requestCount |-> 0, errorCount |-> 0]
                          ELSE CHOOSE h \in found : TRUE
          IN agent_health' = HealthUpdate(agent_health,
               IF probe = "unreachable"
               THEN HealthRecord(id, "offline", 0, <<0, 1>>, 0, 0, now, "Connection failed")
               ELSE HealthRecord(id, IF probe = "ok" THEN "online" ELSE "degraded", 0,
                      IF existing.requestCount > 0
                      THEN <<existing.requestCount - existing.errorCount,
                             existing.requestCount>>
                      ELSE <<1, 1>>,
                      existing.requestCount, existing.errorCount, now,
                      IF probe = "ok" THEN "HTTP 200" ELSE "HTTP 500"))
  /\ UNCHANGED <<now, nextId, auditVars, rateVars, authVars, weightedAgents,
                 selections, agents, lastSync, dres, cacheload>>
  /\ UNCHANGED extVars

\* dispatch(req, actor) up to the start of the backend call; asked is
\* req.agentId, "" when the request names no agent
DispatchBegin(asked) ==
  /\ disp.pc = "idle"
  /\ clawops.dispatches < MaxDispatches
  /\ ClawOps < MaxClawOps
  /\ LET named == asked # ""
         found == getSpecificAgent(agents, agent_health, asked)
         sy == syncAgentsIfNeeded(weightedAgents, lastSync, agents, agent_health, now)
         pick == weightedRoundRobin(sy.weightedAgents)
         none == IF named THEN found = {} ELSE Len(sy.weightedAgents) = 0
         agent == IF named THEN CHOOSE a \in found : TRUE ELSE pick.agent
     IN /\ IF named
           THEN UNCHANGED <<weightedAgents, lastSync, cacheload>>
           ELSE /\ weightedAgents' = IF none THEN sy.weightedAgents
                                     ELSE pick.weightedAgents
                /\ lastSync' = sy.lastSync
                /\ cacheload' = IF sy.loaded
                                THEN [agents |-> agents, agent_health |-> agent_health,
                                      loads |-> cacheload.loads + 1]
                                ELSE cacheload
        /\ IF none
           THEN /\ dres' = DispatchRaised(IF named THEN "NOT_FOUND"
                                          ELSE "EXTERNAL_SERVICE_ERROR",
                                          named, asked, "", "")
                /\ clawops' = [clawops EXCEPT !.dispatches = @ + 1]
                /\ UNCHANGED <<disp, nextId>>
           ELSE /\ disp' = [NoDispatch EXCEPT !.pc = "call", !.named = named,
                              !.agentId = agent.id, !.requestId = HexId(nextId),
                              !.startTime = now,
                              !.health0 = HealthGet(agent_health, agent.id)]
                /\ dres' = [NoDispatchResult EXCEPT !.named = named, !.asked = asked]
                /\ nextId' = nextId + 1
                /\ clawops' = [clawops EXCEPT !.dispatches = @ + 1, !.calls = @ + 1]
  /\ UNCHANGED <<now, auditVars, rateVars, authVars, selections, agents, agent_health>>
  /\ UNCHANGED extVars

\* the code the error handler sends for what dispatch rethrows: the code of
\* a DomainError, INTERNAL_ERROR for any other error
ErrorHandlerCode(thrown) ==
  IF thrown = "ExternalServiceError" THEN "EXTERNAL_SERVICE_ERROR" ELSE "INTERNAL_ERROR"

\* callAgent settles: the backend answered 2xx (ok), or it answered another
\* status and callAgent throws an ExternalServiceError
BackendAnswers(ok) ==
  /\ disp.pc = "call"
  /\ disp' = [disp EXCEPT !.pc = IF ok THEN "answered" ELSE "failed",
                          !.latencyMs = now - disp.startTime, !.step = 1,
                          !.thrown = IF ok THEN "" ELSE "ExternalServiceError"]
  /\ UNCHANGED <<now, nextId, auditVars, rateVars, authVars, weightedAgents,
                 selections, agents, agent_health, lastSync, dres, cacheload, clawops>>
  /\ UNCHANGED extVars

\* fetch rejects: with a TypeError when the connection fails, with an
\* AbortError when the 30 s timer aborts it; callAgent has no catch, so the
\* rejection leaves it as it is
FetchErrors == {"TypeError", "AbortError"}

BackendUnreachable(error) ==
  /\ disp.pc = "call"
  /\ disp' = [disp EXCEPT !.pc = "failed", !.latencyMs = now - disp.startTime,
                          !.step = 1, !.thrown = error]
  /\ UNCHANGED <<now, nextId, auditVars, rateVars, authVars, weightedAgents,
                 selections, agents, agent_health, lastSync, dres, cacheload, clawops>>
  /\ UNCHANGED extVars

\* the next statement of dispatch's try block after a successful call; the
\* upsert of a health row of an agent deleted meanwhile violates the foreign
\* key, the catch block's upsert does so again and dispatch rejects with that
\* error
DispatchStep ==
  /\ disp.pc = "answered"
  /\ LET what == DispatchOrder[disp.step]
         next == [disp EXCEPT !.step = @ + 1, !.trace = Append(@, what)]
     IN CASE what = "metrics" ->
               IF disp.agentId \notin DOMAIN agents
               THEN /\ dres' = DispatchRaised("INTERNAL_ERROR", disp.named, dres.asked,
                                              disp.agentId, disp.requestId)
                    /\ disp' = NoDispatch
                    /\ UNCHANGED <<agent_health, audit_log, nextId, clawops>>
               ELSE /\ agent_health' = HealthUpdate(agent_health,
                         updateAgentMetrics(agent_health, disp.agentId, TRUE,
                                            disp.latencyMs, now))
                    /\ disp' = next
                    /\ clawops' = [clawops EXCEPT !.metrics = @ + 1]
                    /\ UNCHANGED <<dres, audit_log, nextId>>
          [] what = "audit" ->
               /\ audit_log' = AuditLog(audit_log, HexId(nextId),
                     AgentAudit("agent.request", disp.agentId,
                                << <<"requestId", disp.requestId>>,
                                   <<"latencyMs", ToString(disp.latencyMs)>>,
                                   <<"tokensUsed", ToString(TokensUsed)>> >>), now)
               /\ nextId' = nextId + 1
               /\ disp' = next
               /\ UNCHANGED <<dres, agent_health, clawops>>
          [] what = "return" ->
               /\ dres' = [valid |-> TRUE, ok |-> TRUE, code |-> "", named |-> disp.named,
                           asked |-> dres.asked, agentId |-> disp.agentId,
                           requestId |-> disp.requestId, latencyMs |-> disp.latencyMs]
               /\ disp' = [NoDispatch EXCEPT !.trace = next.trace]
               /\ UNCHANGED <<agent_health, audit_log, nextId, clawops>>
  /\ UNCHANGED <<now, qres, logpc, logprev, logparams, origin, tampers, rateVars,
                 authVars, weightedAgents, selections, agents, lastSync, cacheload>>
  /\ UNCHANGED extVars

\* the next statement of the try block after a successful call rejects
\* because the database refuses the statement (updateAgentMetrics before its
\* write, or audit.log): the catch block runs updateAgentMetrics(.., false, ..),
\* whose write goes through when the database accepts statements again
\* (recovered), and the error is rethrown
DispatchStepRaises(recovered) ==
  /\ disp.pc = "answered"
  /\ DispatchOrder[disp.step] \in {"metrics", "audit"}
  /\ IF recovered /\ disp.agentId \in DOMAIN agents
     THEN /\ agent_health' = HealthUpdate(agent_health,
               updateAgentMetrics(agent_health, disp.agentId, FALSE,
                                  now - disp.startTime, now))
          /\ clawops' = [clawops EXCEPT !.metrics = @ + 1]
     ELSE UNCHANGED <<agent_health, clawops>>
  /\ dres' = DispatchRaised("INTERNAL_ERROR", disp.named, dres.asked,
                            disp.agentId, disp.requestId)
  /\ disp' = NoDispatch
  /\ UNCHANGED <<now, nextId, auditVars, rateVars, authVars, weightedAgents,
                 selections, agents, lastSync, cacheload>>
  /\ UNCHANGED extVars

\* dispatch's catch block after a failed call
DispatchFail ==
  /\ disp.pc = "failed"
  /\ disp' = NoDispatch
  /\ IF disp.agentId \notin DOMAIN agents
     THEN /\ dres' = DispatchRaised("INTERNAL_ERROR", disp.named, dres.asked,
                                    disp.agentId, disp.requestId)
          /\ UNCHANGED <<agent_health, clawops>>
     ELSE /\ agent_health' = HealthUpdate(agent_health,
               updateAgentMetrics(agent_health, disp.agentId, FALSE,
                                  now - disp.startTime, now))
          /\ clawops' = [clawops EXCEPT !.metrics = @ + 1]
          /\ dres' = DispatchRaised(ErrorHandlerCode(disp.thrown), disp.named,
                                    dres.asked, disp.agentId, disp.requestId)
  /\ UNCHANGED <<now, nextId, auditVars, rateVars, authVars, weightedAgents,
                 selections, agents, lastSync, cacheload>>
  /\ UNCHANGED extVars

(***************************************************************************)
(* User administration: AuthService.createUser and changePassword.         *)
(***************************************************************************)
MaxUserCreates == 3    \* createUser calls
MaxPwChanges == 2      \* changePassword calls

UserProcs == {1, 2}    \* createUser calls that can be in flight together

NewEmails == {AdminEmail, "new@peanut.local", "New@Peanut.local", "not-an-email"}
NewPasswords == {"ValidPass123!", "short"}
CurrentPasswords == {SeedPassword, "NewPassword456!", "WrongCurrent!"}
ChangedPasswords == {"NewPassword456!", "short"}

NoUserResult == [op |-> "none", ok |-> FALSE, code |-> "", userId |-> ""]

UsersInit ==
  /\ upend = [p \in UserProcs |-> << >>]
  /\ ures = NoUserResult
  /\ userops = [creates |-> 0, changes |-> 0]

\* createUser(email, "User", password, 'viewer') up to the await of save
CreateUserCall(p, email, password) ==
  /\ userops.creates < MaxUserCreates
  /\ upend[p] = << >>
  /\ userops' = [userops EXCEPT !.creates = @ + 1]
  /\ LET r == AuthCreateUserPrepare(users, nextId, email, "User", password, "viewer", now)
     IN /\ nextId' = r.nextId
        /\ IF r.ok
           THEN /\ upend' = [upend EXCEPT ![p] = r.user]
                /\ UNCHANGED ures
           ELSE /\ ures' = [op |-> "createUser", ok |-> FALSE, code |-> r.code,
                            userId |-> ""]
                /\ UNCHANGED upend
  /\ UNCHANGED <<now, users, minted, sessions, resp, consumed, issued, authops,
                 auditVars, rateVars, clawVars, activeConnections, terminals,
                 tres, termops, kilo_config, kres, kiloops>>
  /\ UNCHANGED <<cryptoVars, restVars>>

\* the save of a createUser call and its return; the INSERT fails when
\* another row holds the address by then
CreateUserSave(p) ==
  /\ upend[p] # << >>
  /\ upend' = [upend EXCEPT ![p] = << >>]
  /\ LET user == upend[p][1]
     IN IF UserSaveViolates(users, user)
        THEN /\ ures' = [op |-> "createUser", ok |-> FALSE,
                         code |-> "SQLITE_CONSTRAINT_UNIQUE", userId |-> ""]
             /\ UNCHANGED users
        ELSE /\ users' = UserSave(users, user)
             /\ ures' = [op |-> "createUser", ok |-> TRUE, code |-> "",
                         userId |-> user.id]
  /\ UNCHANGED <<now, nextId, minted, sessions, resp, consumed, issued, authops,
                 userops, auditVars, rateVars, clawVars, activeConnections,
                 terminals, tres, termops, kilo_config, kres, kiloops>>
  /\ UNCHANGED <<cryptoVars, restVars>>

\* changePassword(userId, currentPassword, newPassword)
ChangePassword(userId, currentPassword, newPassword) ==
  /\ userops.changes < MaxPwChanges
  /\ userops' = [userops EXCEPT !.changes = @ + 1]
  /\ LET r == AuthChangePassword(users, audit_log, nextId, userId,
                                 currentPassword, newPassword, now)
     IN /\ users' = r.users
        /\ audit_log' = r.audit_log
        /\ nextId' = r.nextId
        /\ ures' = [op |-> "changePassword", ok |-> r.ok, code |-> r.code,
                    userId |-> userId]
  /\ UNCHANGED <<now, minted, sessions, resp, consumed, issued, authops, upend,
                 qres, logpc, logprev, logparams, origin, tampers,
                 rateVars, clawVars, activeConnections, terminals, tres,
                 termops, kilo_config, kres, kiloops>>
  /\ UNCHANGED <<cryptoVars, restVars>>

(***************************************************************************)
(* Terminal WebSocket handler (interfaces/ws/terminal.handler).            *)
(* A connection is a socket ("open", "erred" once 'error' was emitted and   *)
(* 'close' is still to come, "closed") and its shell ("running", "killed"   *)
(* once kill() was called and 'exit' is still to come, "exited").           *)
(***************************************************************************)
MAX_CONNECTIONS == 10

MaxTermOpens == 12     \* connection attempts
MaxTermEvents == 3     \* socket and shell events

\* WebSocket.readyState: CONNECTING 0, OPEN 1, CLOSING 2, CLOSED 3
ReadyState(socket) ==
  IF socket = "open" THEN 1 ELSE IF socket = "erred" THEN 2 ELSE 3

\* shell.kill(): a running shell is signalled and will exit; no effect on one
\* that was signalled or has exited
ShellKill(shell) == IF shell = "running" THEN "killed" ELSE shell

\* activeConnections = Math.max(0, activeConnections - 1)
Released(n) == Max(0, n - 1)

TermInit ==
  /\ activeConnections = 0
  /\ terminals = << >>
  /\ tres = "none"
  /\ termops = [opens |-> 0, events |-> 0]

\* handleTerminalConnection(socket, req, userId)
TerminalConnect ==
  /\ termops.opens < MaxTermOpens
  /\ termops' = [termops EXCEPT !.opens = @ + 1]
  /\ IF activeConnections >= MAX_CONNECTIONS
     THEN /\ tres' = "refused"
          /\ UNCHANGED <<activeConnections, terminals>>
     ELSE /\ activeConnections' = activeConnections + 1
          /\ terminals' = Append(terminals, [socket |-> "open", shell |-> "running"])
          /\ tres' = "accepted"
  /\ UNCHANGED <<now, nextId, auditVars, rateVars, authVars, clawVars,
                 upend, ures, userops, kilo_config, kres, kiloops>>
  /\ UNCHANGED <<cryptoVars, restVars>>

\* shell.on('exit'): the shell ended by itself or after kill()
ShellExit(i) ==
  /\ termops.events < MaxTermEvents
  /\ terminals[i].shell \in {"running", "killed"}
  /\ termops' = [termops EXCEPT !.events = @ + 1]
  /\ activeConnections' = Released(activeConnections)
  /\ terminals' = [terminals EXCEPT
                     ![i].shell = "exited",
                     ![i].socket = IF ReadyState(@) = 0 THEN "closed" ELSE @]
  /\ UNCHANGED <<now, nextId, tres, auditVars, rateVars, authVars, clawVars,
                 upend, ures, userops, kilo_config, kres, kiloops>>
  /\ UNCHANGED <<cryptoVars, restVars>>

\* socket.on('close')
SocketClose(i) ==
  /\ termops.events < MaxTermEvents
  /\ terminals[i].socket \in {"open", "erred"}
  /\ termops' = [termops EXCEPT !.events = @ + 1]
  /\ activeConnections' = Released(activeConnections)
  /\ terminals' = [terminals EXCEPT ![i].socket = "closed",
                                    ![i].shell = ShellKill(@)]
  /\ UNCHANGED <<now, nextId, tres, auditVars, rateVars, authVars, clawVars,
                 upend, ures, userops, kilo_config, kres, kiloops>>
  /\ UNCHANGED <<cryptoVars, restVars>>

\* socket.on('error'); the socket's 'close' follows
SocketError(i) ==
  /\ termops.events < MaxTermEvents
  /\ terminals[i].socket = "open"
  /\ termops' = [termops EXCEPT !.events = @ + 1]
  /\ activeConnections' = Released(activeConnections)
  /\ terminals' = [terminals EXCEPT ![i].socket = "erred",
                                    ![i].shell = ShellKill(@)]
  /\ UNCHANGED <<now, nextId, tres, auditVars, rateVars, authVars, clawVars,
                 upend, ures, userops, kilo_config, kres, kiloops>>
  /\ UNCHANGED <<cryptoVars, restVars>>

(***************************************************************************)
(* KiloClient (infrastructure/kilo/kilo.client) and PUT /kilo/config       *)
(* (interfaces/http/routes/kilo.routes).                                   *)
(***************************************************************************)
\* Key strings are sequences of characters, so that padding, slicing and
\* hex decoding are computed as the code computes them.
AES_KEY_LENGTH == 32

HexDigits == {"0", "1", "2", "3", "4", "5", "6", "7", "8", "9",
              "a", "b", "c", "d", "e", "f", "A", "B", "C", "D", "E", "F"}

\* the value of a hex digit does not depend on its case
HexLower(c) ==
  IF c = "A" THEN "a" ELSE IF c = "B" THEN "b" ELSE IF c = "C" THEN "c"
  ELSE IF c = "D" THEN "d" ELSE IF c = "E" THEN "e" ELSE IF c = "F" THEN "f"
  ELSE c

\* String.prototype.padEnd(n, c)
PadEnd(str, n, c) ==
  IF Len(str) >= n THEN str ELSE str \o [i \in 1..(n - Len(str)) |-> c]

\* Buffer.from(str, 'hex'): one byte per pair of hex digits, cut off at the
\* first pair that is not hex
HexDecode(str) ==
  LET good == {i \in 1..(Len(str) \div 2) :
                 \A j \in 1..i : str[2 * j - 1] \in HexDigits /\ str[2 * j] \in HexDigits}
  IN [i \in 1..Cardinality(good) |-> <<HexLower(str[2 * i - 1]), HexLower(str[2 * i])>>]

\* Buffer.from(keyHex.padEnd(64, '0').slice(0, 64), 'hex')
DeriveKey(keyHex) ==
  HexDecode(SubSeq(PadEnd(keyHex, AES_KEY_LENGTH * 2, "0"), 1, AES_KEY_LENGTH * 2))

Thrown(value, error) == [ok |-> FALSE, value |-> value, error |-> error]

\* AES-256-GCM as an injective function of (iv, plaintext, key).  The result
\* is `${iv}:${authTag}:${encrypted}`, the last part empty for the empty
\* plaintext; createCipheriv throws on a key that is not 32 bytes.
encryptAES256(plaintext, keyHex, iv) ==
  LET key == DeriveKey(keyHex)
  IN IF Len(key) # AES_KEY_LENGTH
     THEN Thrown(<< >>, "Invalid key length")
     ELSE [ok |-> TRUE, error |-> "",
           value |-> <<iv, <<"tag", plaintext, key, iv>>,
                       IF plaintext = "" THEN << >>
                       ELSE <<"enc", plaintext, key, iv>>>>]

\* the three parts must be non-empty; decipher.final() throws when the tag
\* does not authenticate the data under the derived key
decryptAES256(ciphertext, keyHex) ==
  LET key == DeriveKey(keyHex)
  IN IF ciphertext[2] = << >> \/ ciphertext[3] = << >>
     THEN Thrown("", "Invalid ciphertext format")
     ELSE IF Len(key) # AES_KEY_LENGTH
     THEN Thrown("", "Invalid key length")
     ELSE IF ciphertext[3][3] = key
             /\ ciphertext[2] = <<"tag", ciphertext[3][2], key, ciphertext[1]>>
     THEN [ok |-> TRUE, error |-> "", value |-> ciphertext[3][2]]
     ELSE Thrown("", "Unsupported state or unable to authenticate data")

\* 'a'.repeat(64)
RepeatKey(c, n) == [i \in 1..n |-> c]

KiloEncryptionKey == RepeatKey("a", 64)    \* process.env.KILO_ENCRYPTION_KEY
NullText == << >>                \* SQL NULL in api_key_encrypted
Undefined == "undefined"         \* a string field the caller left out
UndefinedNumber == -1            \* a number field the caller left out

DefaultBaseUrl == "https://api.kilo.codes"
DefaultModel == "claude-3-5-sonnet"
DefaultMaxTokens == 8192
MaxTokensLimit == 200000
MinApiKeyLength == 10

\* COALESCE(a, b)
Coalesce(a, b) == IF a # NullText THEN a ELSE b

\* KiloClient.saveConfig(config) on the stored table, iv being the fresh
\* random of the encryption
saveConfig_overwrite(table, config, iv, t) ==
  LET apiKeyEncrypted == IF config.apiKey # Undefined /\ config.apiKey # ""
                         THEN encryptAES256(config.apiKey, KiloEncryptionKey, iv).value
                         ELSE NullText
  IN << [api_key_encrypted |-> apiKeyEncrypted,
         base_url |-> config.baseUrl, model |-> config.model,
         max_tokens_per_request |-> config.maxTokensPerRequest,
         updated_at |-> t] >>

saveConfig(table, config, iv, t) ==
  LET existing == IF table = << >> THEN NullText ELSE table[1].api_key_encrypted
      apiKeyEncrypted == IF config.apiKey # Undefined /\ config.apiKey # ""
                         THEN encryptAES256(config.apiKey, KiloEncryptionKey, iv).value
                         ELSE existing
  IN IF table = << >>
     THEN << [api_key_encrypted |-> apiKeyEncrypted,
              base_url |-> config.baseUrl, model |-> config.model,
              max_tokens_per_request |-> config.maxTokensPerRequest,
              updated_at |-> t] >>
     ELSE << [table[1] EXCEPT
                !.api_key_encrypted = Coalesce(apiKeyEncrypted, @),
                !.base_url = config.baseUrl, !.model = config.model,
                !.max_tokens_per_request = config.maxTokensPerRequest,
                !.updated_at = t] >>

\* configSchema.parse(body): the body is accepted
ConfigValid(body) ==
  /\ body.apiKey = Undefined \/ Len(body.apiKey) >= MinApiKeyLength
  /\ body.baseUrl # "not a url"
  /\ body.maxTokensPerRequest = UndefinedNumber
       \/ (body.maxTokensPerRequest >= 1 /\ body.maxTokensPerRequest <= MaxTokensLimit)

\* configSchema.parse(body): the parsed value, defaults filled in
ConfigParsed(body) ==
  [apiKey |-> body.apiKey,
   baseUrl |-> IF body.baseUrl = Undefined THEN DefaultBaseUrl ELSE body.baseUrl,
   model |-> IF body.model = Undefined THEN DefaultModel ELSE body.model,
   maxTokensPerRequest |-> IF body.maxTokensPerRequest = UndefinedNumber
                           THEN DefaultMaxTokens ELSE body.maxTokensPerRequest]

MaxKiloPuts == 3       \* PUT /kilo/config requests

KiloBody(apiKey, baseUrl, model, maxTokensPerRequest) ==
  [apiKey |-> apiKey, baseUrl |-> baseUrl, model |-> model,
   maxTokensPerRequest |-> maxTokensPerRequest]

\* request bodies: with and without a key, with and without the other
\* fields, and three that the schema rejects
KiloBodies ==
  { KiloBody(Undefined, Undefined, Undefined, UndefinedNumber),
    KiloBody("sk-kilo-key-one", "https://kilo.example", "model-b", 4096),
    KiloBody("sk-kilo-key-two", Undefined, Undefined, UndefinedNumber),
    KiloBody(Undefined, "https://kilo.example", "model-b", 4096),
    KiloBody(Undefined, Undefined, "model-b", UndefinedNumber),
    KiloBody("short", Undefined, Undefined, UndefinedNumber),
    KiloBody(Undefined, "not a url", Undefined, UndefinedNumber),
    KiloBody("sk-kilo-key-one", Undefined, Undefined, 0) }

NoKiloResponse == [status |-> 0, code |-> "", body |-> [apiKey |-> Undefined,
                     baseUrl |-> Undefined, model |-> Undefined,
                     maxTokensPerRequest |-> UndefinedNumber]]

KiloInit ==
  /\ kilo_config = << >>
  /\ kres = NoKiloResponse
  /\ kiloops = 0

\* PUT /kilo/config by an authenticated user with this role
KiloPutConfig(role, body) ==
  /\ kiloops < MaxKiloPuts
  /\ kiloops' = kiloops + 1
  /\ IF role # "admin"
     THEN /\ kres' = [status |-> 403, code |-> "FORBIDDEN", body |-> body]
          /\ UNCHANGED <<kilo_config, nextId>>
     ELSE IF ~ConfigValid(body)
     THEN /\ kres' = [status |-> 422, code |-> "VALIDATION_ERROR", body |-> body]
          /\ UNCHANGED <<kilo_config, nextId>>
     ELSE /\ kilo_config' = saveConfig(kilo_config, ConfigParsed(body), nextId, now)
          /\ nextId' = IF body.apiKey # Undefined THEN nextId + 1 ELSE nextId
          /\ kres' = [status |-> 200, code |-> "", body |-> body]
  /\ UNCHANGED <<now, auditVars, rateVars, authVars, clawVars, upend, ures,
                 userops, activeConnections, terminals, tres, termops>>
  /\ UNCHANGED <<cryptoVars, restVars>>

(***************************************************************************)
(* The AES helpers of CryptoService used on their own.                     *)
(***************************************************************************)
Plaintexts == {"secret-api-key-12345", "same secret", ""}

\* key strings: the key of the tests, its upper-case spelling, a second key,
\* a short key and the same with one '0' more, a key one character too
\* long, a key that is not hex, the empty key
KeyStrings ==
  {RepeatKey("a", 64), RepeatKey("A", 64), RepeatKey("b", 64),
   <<"a", "b">>, <<"a", "b", "0">>, RepeatKey("a", 65), <<"z", "z">>, << >>}

NoCrypto == [pc |-> "idle", m |-> "", k |-> << >>, k2 |-> << >>,
             enc |-> Thrown(<< >>, ""), dec |-> Thrown("", "")]

CryptoInit == cry = NoCrypto

\* encryptAES256(m, k)
CryptoEncrypt(m, k) ==
  /\ cry.pc = "idle"
  /\ cry' = [cry EXCEPT !.pc = "encrypted", !.m = m, !.k = k,
                        !.enc = encryptAES256(m, k, nextId)]
  /\ nextId' = nextId + 1
  /\ UNCHANGED <<now, auditVars, rateVars, authVars, clawVars, userVars,
                 termVars, kiloVars, restVars>>

\* decryptAES256(c, k2) on the ciphertext that encryptAES256 returned
CryptoDecrypt(k2) ==
  /\ cry.pc = "encrypted"
  /\ cry.enc.ok
  /\ cry' = [cry EXCEPT !.pc = "done", !.k2 = k2,
                        !.dec = decryptAES256(cry.enc.value, k2)]
  /\ UNCHANGED <<now, nextId, auditVars, rateVars, authVars, clawVars,
                 userVars, termVars, kiloVars, restVars>>

(***************************************************************************)
(* The /agents routes: role gate, request schema, OpenClawService CRUD.    *)
(***************************************************************************)
AgentTypes == {"ollama", "kilo", "openai", "anthropic", "custom"}

\* the fields of createAgentSchema that the registry stores
AgentFields == {"name", "type", "endpoint", "model", "maxTokens", "temperature",
                "priority", "weight"}

\* one field of createAgentSchema; temperatures are counted in tenths
FieldParses(f, value) ==
  CASE f = "name" -> Len(value) >= 2 /\ Len(value) <= 64
    [] f = "type" -> value \in AgentTypes
    [] f = "endpoint" -> ParsesAsUrl(value)
    [] f = "model" -> Len(value) >= 1
    [] f = "maxTokens" -> value >= 1 /\ value <= 200000
    [] f = "temperature" -> value >= 0 /\ value <= 20
    [] f = "priority" -> value >= 1 /\ value <= 10
    [] f = "weight" -> value >= 1 /\ value <= 100

\* createAgentSchema.parse(body) returns
createAgentSchema_requiredOnly(body) ==
  \A f \in {"name", "type", "endpoint", "model"} : ~Absent(body, f)

createAgentSchema(body) ==
  /\ \A f \in {"name", "type", "endpoint", "model"} : ~Absent(body, f)
  /\ \A f \in AgentFields \cap DOMAIN body : FieldParses(f, body[f])

\* updateAgentSchema.parse(body) returns: createAgentSchema.partial().omit(type)
updateAgentSchema(body) ==
  \A f \in (AgentFields \ {"type"}) \cap DOMAIN body : FieldParses(f, body[f])

\* requireRole(req, roles) returns
requireRole_anyRole(role, roles) == role \in {"admin", "operator", "viewer"}

requireRole(role, roles) == role \in roles

\* what a call of the service leaves behind, and the error it threw if any
AgentCall(ag, hl, log, nid, last, error) ==
  [agents |-> ag, agent_health |-> hl, audit_log |-> log, nextId |-> nid,
   lastSync |-> last, error |-> error]

NoError == [code |-> "", statusCode |-> 0, message |-> "", name |-> ""]

DomainError(name, code, statusCode, message) ==
  [code |-> code, statusCode |-> statusCode, message |-> message, name |-> name]

ValidationError(message) == DomainError("ValidationError", "VALIDATION_ERROR", 422, message)

NotFoundError(resource) == DomainError("NotFoundError", "NOT_FOUND", 404, resource)

\* OpenClawService.createAgent(dto, actor) at time t
createAgent(ag, hl, log, nid, last, dto, t) ==
  LET agent == AgentCreate(HexId(nid), dto, t)
  IN IF ~AgentValid(agent)
     THEN AgentCall(ag, hl, log, nid + 1, last, ValidationError(AgentValidate(agent)))
     ELSE AgentCall(AgentSave(ag, agent),
            HealthUpdate(hl, HealthRecord(agent.id, "offline", 0, <<0, 1>>, 0, 0, t,
                                          "Agent created, awaiting health check")),
            AuditLog(log, HexId(nid + 1),
              AgentAudit("agent.created", agent.id,
                         << <<"name", agent.name>>, <<"type", agent.type>>,
                            <<"endpoint", agent.endpoint>> >>), t),
            nid + 2, invalidateCache, NoError)

\* OpenClawService.updateAgent(id, dto, actor) at time t
updateAgent(ag, hl, log, nid, last, id, dto, t) ==
  IF AgentFindById(ag, id) = {}
  THEN AgentCall(ag, hl, log, nid, last, NotFoundError("Agent"))
  ELSE LET updated == AgentUpdate(ag[id], dto, t)
       IN IF ~AgentValid(updated)
          THEN AgentCall(ag, hl, log, nid, last,
                         ValidationError(AgentValidate(updated)))
          ELSE AgentCall(AgentSave(ag, updated), hl,
                 AuditLog(log, HexId(nid),
                   AgentAudit("agent.updated", id, << <<"changes", dto>> >>), t),
                 nid + 1, invalidateCache, NoError)

\* OpenClawService.deleteAgent(id, actor) at time t
deleteAgent(ag, hl, log, nid, last, id, t) ==
  IF AgentFindById(ag, id) = {}
  THEN AgentCall(ag, hl, log, nid, last, NotFoundError("Agent"))
  ELSE AgentCall(AgentDelete(ag, id), HealthCascade(hl, id),
         AuditLog(log, HexId(nid),
           AgentAudit("agent.deleted", id, << <<"name", ag[id].name>> >>), t),
         nid + 1, invalidateCache, NoError)

MaxAgentReqs == 3      \* requests to the /agents routes

Name64 == "abcdefghijklmnopqrstuvwxyzabcdefghijklmnopqrstuvwxyzabcdefghijkl"
Name65 == "abcdefghijklmnopqrstuvwxyzabcdefghijklmnopqrstuvwxyzabcdefghijklm"

AgentBody(name, model) ==
  [name |-> name, type |-> "custom", endpoint |-> "https://gamma", model |-> model]

\* bodies of POST /agents: bodies at the edges of the ranges, one that
\* leaves the optional fields out, and bodies the schema or the entity rejects
CreateBodies ==
  { [name |-> "alpha", type |-> "ollama", endpoint |-> "http://alpha:11434",
     model |-> "llama3", maxTokens |-> 200000, temperature |-> 20,
     priority |-> 10, weight |-> 100],
    [name |-> Name64, type |-> "kilo", endpoint |-> "http://beta:11434",
     model |-> "m", maxTokens |-> 1, temperature |-> 0, priority |-> 1,
     weight |-> 1],
    AgentBody("be", "llama3"),
    AgentBody(Name65, "llama3"),
    AgentBody("a", "llama3"),
    AgentBody("  ", "llama3"),
    AgentBody("beta", ""),
    AgentBody("beta", " "),
    [name |-> "beta", endpoint |-> "https://gamma", model |-> "llama3"],
    [AgentBody("beta", "llama3") EXCEPT !.type = "llm"],
    [AgentBody("beta", "llama3") EXCEPT !.endpoint = "ftp://files"],
    [AgentBody("beta", "llama3") EXCEPT !.endpoint = "httpx"] }
  \cup { [name |-> "beta", type |-> "custom", endpoint |-> "https://gamma",
          model |-> "llama3", maxTokens |-> n] : n \in {0, 200001} }
  \cup { [name |-> "beta", type |-> "custom", endpoint |-> "https://gamma",
          model |-> "llama3", temperature |-> n] : n \in {-1, 21} }
  \cup { [name |-> "beta", type |-> "custom", endpoint |-> "https://gamma",
          model |-> "llama3", priority |-> n] : n \in {0, 11} }
  \cup { [name |-> "beta", type |-> "custom", endpoint |-> "https://gamma",
          model |-> "llama3", weight |-> n] : n \in {0, 101} }

\* bodies of PUT /agents/:id
UpdateBodies ==
  { [name |-> n] : n \in {"delta", Name64, Name65, "a", " a"} }
  \cup { [model |-> n] : n \in {"phi3", "", " "} }
  \cup { [maxTokens |-> n] : n \in {0, 8192, 200001} }
  \cup { [temperature |-> n] : n \in {-1, 7, 21} }
  \cup { [priority |-> n] : n \in {0, 3, 11} }
  \cup { [weight |-> n] : n \in {0, 50, 101} }
  \cup { [endpoint |-> "ftp://files"], [name |-> "delta", type |-> "llm"] }

Roles == {"admin", "operator", "viewer"}

NoAgentResponse ==
  [route |-> "none", role |-> "", id |-> "", body |-> << >>,
   response |-> Response("none", 0, "", "")]

AgentRequest(route, role, id, body) ==
  [NoAgentResponse EXCEPT !.route = route, !.role = role, !.id = id, !.body = body]

AgentsInit ==
  /\ ares = NoAgentResponse
  /\ agentops = 0

\* what a route handler that ran the service answers: reply.code(status), or
\* the error handler's answer when the service threw
AgentReply(route, status, call) ==
  IF call.error = NoError
  THEN Response(route, status, "", "")
  ELSE Response(route, call.error.statusCode, call.error.code, call.error.message)

\* the registry, the health rows, the audit log and the cache after a call
AgentCallApplied(call) ==
  /\ agents' = call.agents
  /\ agent_health' = call.agent_health
  /\ audit_log' = call.audit_log
  /\ nextId' = call.nextId
  /\ lastSync' = call.lastSync

\* POST /agents by a session with this role
PostAgents(role, body) ==
  /\ agentops < MaxAgentReqs
  /\ agentops' = agentops + 1
  /\ LET route == "POST /agents"
         request == AgentRequest(route, role, "", body)
     IN IF ~requireRole(role, {"admin", "operator"})
        THEN /\ ares' = [request EXCEPT !.response =
                           Response(route, 403, "FORBIDDEN", "Insufficient permissions")]
             /\ UNCHANGED <<agents, agent_health, audit_log, nextId, lastSync>>
        ELSE IF ~createAgentSchema(body)
        THEN /\ ares' = [request EXCEPT !.response =
                           Response(route, 422, "VALIDATION_ERROR", "Validation failed")]
             /\ UNCHANGED <<agents, agent_health, audit_log, nextId, lastSync>>
        ELSE LET call == createAgent(agents, agent_health, audit_log, nextId,
                                     lastSync, body, now)
             IN /\ ares' = [request EXCEPT !.response = AgentReply(route, 201, call)]
                /\ AgentCallApplied(call)
  /\ UNCHANGED <<now, qres, logpc, logprev, logparams, origin, tampers, rateVars,
                 authVars, weightedAgents, selections, disp, dres, cacheload,
                 clawops>>
  /\ UNCHANGED <<userVars, termVars, kiloVars, cryptoVars, lateVars, vaultVars, burstVars,
                 syncVars>>

\* PUT /agents/:id by a session with this role
PutAgent(role, id, body) ==
  /\ agentops < MaxAgentReqs
  /\ agentops' = agentops + 1
  /\ LET route == "PUT /agents/:id"
         request == AgentRequest(route, role, id, body)
     IN IF ~requireRole(role, {"admin", "operator"})
        THEN /\ ares' = [request EXCEPT !.response =
                           Response(route, 403, "FORBIDDEN", "Insufficient permissions")]
             /\ UNCHANGED <<agents, agent_health, audit_log, nextId, lastSync>>
        ELSE IF ~updateAgentSchema(body)
        THEN /\ ares' = [request EXCEPT !.response =
                           Response(route, 422, "VALIDATION_ERROR", "Validation failed")]
             /\ UNCHANGED <<agents, agent_health, audit_log, nextId, lastSync>>
        ELSE LET dto == [f \in (AgentFields \ {"type"}) \cap DOMAIN body |-> body[f]]
                 call == updateAgent(agents, agent_health, audit_log, nextId,
                                     lastSync, id, dto, now)
             IN /\ ares' = [request EXCEPT !.response = AgentReply(route, 200, call)]
                /\ AgentCallApplied(call)
  /\ UNCHANGED <<now, qres, logpc, logprev, logparams, origin, tampers, rateVars,
                 authVars, weightedAgents, selections, disp, dres, cacheload,
                 clawops>>
  /\ UNCHANGED <<userVars, termVars, kiloVars, cryptoVars, lateVars, vaultVars, burstVars,
                 syncVars>>

\* DELETE /agents/:id by a session with this role
DeleteAgentRoute(role, id) ==
  /\ agentops < MaxAgentReqs
  /\ agentops' = agentops + 1
  /\ LET route == "DELETE /agents/:id"
         request == AgentRequest(route, role, id, << >>)
     IN IF ~requireRole(role, {"admin"})
        THEN /\ ares' = [request EXCEPT !.response =
                           Response(route, 403, "FORBIDDEN", "Insufficient permissions")]
             /\ UNCHANGED <<agents, agent_health, audit_log, nextId, lastSync>>
        ELSE LET call == deleteAgent(agents, agent_health, audit_log, nextId,
                                     lastSync, id, now)
             IN /\ ares' = [request EXCEPT !.response = AgentReply(route, 204, call)]
                /\ AgentCallApplied(call)
  /\ UNCHANGED <<now, qres, logpc, logprev, logparams, origin, tampers, rateVars,
                 authVars, weightedAgents, selections, disp, dres, cacheload,
                 clawops>>
  /\ UNCHANGED <<userVars, termVars, kiloVars, cryptoVars, lateVars, vaultVars, burstVars,
                 syncVars>>

(***************************************************************************)
(* KiloClient.checkConnection: the status probe of the credential vault.   *)
(***************************************************************************)
\* getEncryptionKey() when process.env.KILO_ENCRYPTION_KEY is env (<< >>: not set)
getEncryptionKey(env) ==
  IF env = << >>
  THEN Thrown(<< >>, "KILO_ENCRYPTION_KEY environment variable not set")
  ELSE [ok |-> TRUE, error |-> "", value |-> env]

\* getConfig()
getConfig(table) ==
  IF table = << >>
  THEN [baseUrl |-> DefaultBaseUrl, model |-> DefaultModel,
        maxTokensPerRequest |-> DefaultMaxTokens, hasApiKey |-> FALSE]
  ELSE [baseUrl |-> table[1].base_url, model |-> table[1].model,
        maxTokensPerRequest |-> table[1].max_tokens_per_request,
        hasApiKey |-> table[1].api_key_encrypted # NullText]

\* getApiKey()
getApiKey(table, env) ==
  IF table = << >> \/ table[1].api_key_encrypted = NullText
  THEN Thrown("", "Kilo Code API key not configured")
  ELSE LET key == getEncryptionKey(env)
       IN IF ~key.ok THEN Thrown("", key.error)
          ELSE decryptAES256(table[1].api_key_encrypted, key.value)

\* Math.round((used / limit) * 100) for non-negative used and positive limit
RoundPercent(used, limit) == (200 * used + limit) \div (2 * limit)

NoUsage == [used |-> 0, limit |-> 0, resetAt |-> "", percentage |-> 0]

\* getUsage() when the upstream answers the request as given: it fails on
\* the network, answers another status than 2xx, answers a body that is not
\* JSON, or answers the usage
getUsage(table, env, upstream) ==
  LET apiKey == getApiKey(table, env)
  IN IF ~apiKey.ok THEN Thrown(NoUsage, apiKey.error)
     ELSE IF upstream.kind = "network" THEN Thrown(NoUsage, "fetch failed")
     ELSE IF upstream.kind = "status"
     THEN Thrown(NoUsage, "External service 'Kilo Code' error: Failed to fetch usage")
     ELSE IF upstream.kind = "not json" THEN Thrown(NoUsage, "Unexpected token")
     ELSE [ok |-> TRUE, error |-> "",
           value |-> [used |-> upstream.used, limit |-> upstream.limit,
                      resetAt |-> upstream.reset_at,
                      percentage |-> IF upstream.limit > 0
                                     THEN RoundPercent(upstream.used, upstream.limit)
                                     ELSE 0]]

ConnectionStatus(connected, model, usage, t) ==
  [raised |-> FALSE, error |-> "", connected |-> connected, model |-> model,
   usage |-> usage, lastCheckedAt |-> t]

\* checkConnection() at time t
checkConnection_noCatch(table, env, upstream, t) ==
  LET config == getConfig(table)
      usage == getUsage(table, env, upstream)
  IN IF ~config.hasApiKey THEN ConnectionStatus(FALSE, config.model, NoUsage, t)
     ELSE IF usage.ok THEN ConnectionStatus(TRUE, config.model, usage.value, t)
     ELSE [ConnectionStatus(FALSE, "", NoUsage, 0) EXCEPT
             !.raised = TRUE, !.error = usage.error]

checkConnection(table, env, upstream, t) ==
  LET config == getConfig(table)
      usage == getUsage(table, env, upstream)
  IN IF ~config.hasApiKey THEN ConnectionStatus(FALSE, config.model, NoUsage, t)
     ELSE IF usage.ok THEN ConnectionStatus(TRUE, config.model, usage.value, t)
     ELSE ConnectionStatus(FALSE, config.model, NoUsage, t)

MaxKiloChecks == 1     \* GET /kilo/status requests

\* KILO_ENCRYPTION_KEY of the process that answers: the key the stored
\* ciphertext was made with, another key, none
EnvKeys == {KiloEncryptionKey, RepeatKey("b", 64), << >>}

Upstreams ==
  { [kind |-> "usage", used |-> 50, limit |-> 200, reset_at |-> "2026-01-01"],
    [kind |-> "usage", used |-> 1, limit |-> 0, reset_at |-> "2026-01-01"],
    [kind |-> "status", used |-> 0, limit |-> 0, reset_at |-> ""],
    [kind |-> "not json", used |-> 0, limit |-> 0, reset_at |-> ""],
    [kind |-> "network", used |-> 0, limit |-> 0, reset_at |-> ""] }

NoConnectionCheck ==
  [checks |-> 0, env |-> << >>, upstream |-> "", hadKey |-> FALSE,
   probe |-> Thrown(NoUsage, ""), status |-> ConnectionStatus(FALSE, "", NoUsage, 0)]

VaultInit == kconn = NoConnectionCheck

\* GET /kilo/status
KiloCheckConnection(env, upstream) ==
  /\ kconn.checks < MaxKiloChecks
  /\ kconn' = [checks |-> kconn.checks + 1, env |-> env, upstream |-> upstream.kind,
               hadKey |-> kilo_config # << >> /\ kilo_config[1].api_key_encrypted # NullText,
               probe |-> getUsage(kilo_config, env, upstream),
               status |-> checkConnection(kilo_config, env, upstream, now)]
  /\ UNCHANGED <<now, nextId, auditVars, rateVars, authVars, clawVars, userVars,
                 termVars, kiloVars, cryptoVars, lateVars, agentVars, burstVars, syncVars>>

(***************************************************************************)
(* One client calling RateLimitService.check on one key, call after call.  *)
(***************************************************************************)
MaxBurstChecks == 50   \* check calls of the burst
MaxBurstTicks == 1     \* clock advances during the burst

BurstKeys == {LoginKey, TotpKey, TestKey}

\* ghost: the key of the burst, the window of its last call, and the
\* retryAfter of each call refused in that window, in order
NoBurst == [key |-> <<"", "">>, windowStart |-> 0, refused |-> << >>,
            checks |-> 0, ticks |-> 0]

BurstInit == burst = NoBurst

\* RateLimitService.check(key, PolicyOf(key)) by the client of the burst
BurstCheck(key) ==
  /\ burst.checks < MaxBurstChecks
  /\ burst.checks > 0 => burst.key = key
  /\ LET cfg == PolicyOf(key)
         r == RateLimitCheck(rate_limit_windows, key, cfg, now)
         windowStart == (now \div cfg.windowMs) * cfg.windowMs
         before == IF burst.checks > 0 /\ burst.windowStart = windowStart
                   THEN burst.refused ELSE << >>
     IN /\ rate_limit_windows' = r.table
        /\ rlres' = [valid |-> TRUE, key |-> key, ok |-> r.ok,
                     remaining |-> r.remaining, resetAt |-> r.resetAt,
                     limit |-> r.limit, retryAfter |-> r.retryAfter, at |-> now]
        /\ burst' = [burst EXCEPT !.key = key, !.windowStart = windowStart,
                       !.checks = @ + 1,
                       !.refused = IF r.ok THEN before
                                   ELSE Append(before, r.retryAfter)]
  /\ UNCHANGED <<now, nextId, rlcalls, auditVars, authVars, clawVars, userVars,
                 termVars, kiloVars, cryptoVars, lateVars, agentVars, vaultVars, syncVars>>

\* the clock moves on by one minute, into the next window
BurstTick ==
  /\ burst.ticks < MaxBurstTicks
  /\ now' = now + LoginPolicy.windowMs
  /\ burst' = [burst EXCEPT !.ticks = @ + 1]
  /\ UNCHANGED <<nextId, auditVars, rateVars, authVars, clawVars, userVars,
                 termVars, kiloVars, cryptoVars, lateVars, agentVars, vaultVars, syncVars>>

(***************************************************************************)
(* dispatch without agentId, one step per await of selectAgent and         *)
(* syncAgentsIfNeeded: other requests run between the steps.               *)
(***************************************************************************)
\* sync.registered and sync.picked are ghosts: the ids registered when the
\* selection started, and the agent the last selection returned with the ids
\* that were registered when it started
NoReload == [pc |-> "idle", all |-> << >>, healthy |-> << >>, registered |-> {},
             picked |-> "", pickedFrom |-> {}]

ReloadInit == sync = NoReload

\* selectAgent begins: syncAgentsIfNeeded up to the return of findAll
SelectBegin ==
  /\ disp.pc = "idle" /\ sync.pc = "idle"
  /\ clawops.dispatches < MaxDispatches
  /\ ClawOps < MaxClawOps
  /\ clawops' = [clawops EXCEPT !.dispatches = @ + 1]
  /\ sync' = IF now - lastSync < SYNC_INTERVAL_MS
             THEN [sync EXCEPT !.pc = "synced", !.registered = DOMAIN agents]
             ELSE [sync EXCEPT !.pc = "listed", !.all = AgentFindAll(agents),
                               !.registered = DOMAIN agents]
  /\ UNCHANGED <<now, nextId, auditVars, rateVars, authVars, weightedAgents,
                 selections, agents, agent_health, lastSync, disp, dres, cacheload>>
  /\ UNCHANGED <<userVars, termVars, kiloVars, cryptoVars, lateVars, agentVars, vaultVars,
                 burstVars>>

\* syncAgentsIfNeeded: the getHealth reads of Promise.all have returned
SyncHealth ==
  /\ sync.pc = "listed"
  /\ sync' = [sync EXCEPT !.pc = "filtered",
                !.healthy = SelectSeq(sync.all, LAMBDA a :
                              \E h \in HealthGet(agent_health, a.id) :
                                h.status = "online")]
  /\ UNCHANGED <<now, nextId, auditVars, rateVars, authVars, clawVars>>
  /\ UNCHANGED <<userVars, termVars, kiloVars, cryptoVars, lateVars, agentVars, vaultVars,
                 burstVars>>

\* syncAgentsIfNeeded: the cache and lastSync are assigned
SyncAssign ==
  /\ sync.pc = "filtered"
  /\ sync' = [sync EXCEPT !.pc = "synced", !.all = << >>, !.healthy = << >>]
  /\ weightedAgents' = [k \in 1..Len(sync.healthy) |->
                          [agent |-> sync.healthy[k], currentWeight |-> 0]]
  /\ lastSync' = now
  /\ cacheload' = [cacheload EXCEPT !.loads = @ + 1]
  /\ UNCHANGED <<now, nextId, auditVars, rateVars, authVars, selections, agents,
                 agent_health, disp, dres, clawops>>
  /\ UNCHANGED <<userVars, termVars, kiloVars, cryptoVars, lateVars, agentVars, vaultVars,
                 burstVars>>

\* selectAgent after syncAgentsIfNeeded returned, and dispatch up to the
\* start of the backend call
SelectPick ==
  /\ sync.pc = "synced"
  /\ IF Len(weightedAgents) = 0
     THEN /\ dres' = DispatchRaised("EXTERNAL_SERVICE_ERROR", FALSE, "", "", "")
          /\ sync' = [NoReload EXCEPT !.pickedFrom = sync.registered]
          /\ UNCHANGED <<weightedAgents, disp, nextId, clawops>>
     ELSE LET pick == weightedRoundRobin(weightedAgents)
          IN /\ weightedAgents' = pick.weightedAgents
             /\ sync' = [NoReload EXCEPT !.picked = pick.agent.id,
                                         !.pickedFrom = sync.registered]
             /\ disp' = [NoDispatch EXCEPT !.pc = "call", !.agentId = pick.agent.id,
                           !.requestId = HexId(nextId), !.startTime = now,
                           !.health0 = HealthGet(agent_health, pick.agent.id)]
             /\ dres' = NoDispatchResult
             /\ nextId' = nextId + 1
             /\ clawops' = [clawops EXCEPT !.calls = @ + 1]
  /\ UNCHANGED <<now, auditVars, rateVars, authVars, selections, agents,
                 agent_health, lastSync, cacheload>>
  /\ UNCHANGED <<userVars, termVars, kiloVars, cryptoVars, lateVars, agentVars, vaultVars,
                 burstVars>>

(***************************************************************************)
(* Selections without end: selectAgent and invalidateCache on their own.   *)
(* The rows and audit entries that the surrounding dispatch, createAgent,  *)
(* updateAgent and deleteAgent write do not reach the selection and are    *)
(* left out, so that a run of any length stays within finitely many states.*)
(***************************************************************************)
\* selectAgent of a dispatch without agentId: syncAgentsIfNeeded, then
\* weightedRoundRobin unless the list is empty
SelectAgent ==
  /\ disp.pc = "idle" /\ sync.pc = "idle"
  /\ LET sy == syncAgentsIfNeeded(weightedAgents, lastSync, agents, agent_health, now)
         pick == weightedRoundRobin(sy.weightedAgents)
     IN /\ lastSync' = sy.lastSync
        /\ cacheload' = IF sy.loaded
                        THEN [agents |-> agents, agent_health |-> agent_health,
                              loads |-> 1]
                        ELSE cacheload
        /\ IF Len(sy.weightedAgents) = 0
           THEN /\ weightedAgents' = sy.weightedAgents
                /\ dres' = DispatchRaised("EXTERNAL_SERVICE_ERROR", FALSE, "", "", "")
                /\ sync' = [sync EXCEPT !.picked = "", !.pickedFrom = DOMAIN agents]
           ELSE /\ weightedAgents' = pick.weightedAgents
                /\ dres' = NoDispatchResult
                /\ sync' = [sync EXCEPT !.picked = pick.agent.id,
                                        !.pickedFrom = DOMAIN agents]
  /\ UNCHANGED <<now, nextId, auditVars, rateVars, authVars, selections, agents,
                 agent_health, disp, clawops>>
  /\ UNCHANGED <<userVars, termVars, kiloVars, cryptoVars, lateVars, agentVars, vaultVars,
                 burstVars>>

\* invalidateCache(), as an agent create, update or delete calls it when it
\* leaves the set of online agents as it is
InvalidateCache ==
  /\ lastSync # invalidateCache
  /\ lastSync' = invalidateCache
  /\ UNCHANGED <<now, nextId, auditVars, rateVars, authVars, weightedAgents, selections,
                 agents, agent_health, disp, dres, cacheload, clawops>>
  /\ UNCHANGED extVars

(***************************************************************************)
(* AuthService.login and verifyTotp, one step per await between the read   *)
(* of the user row and its save: other calls run between the steps.        *)
(***************************************************************************)
MaxRaceCalls == 2      \* login and verifyTotp calls started

RaceProcs == {1, 2}    \* calls that can be in flight together

NoAuthCall == [op |-> "none", held |-> << >>, password |-> "",
               totpCode |-> <<"none">>]

RaceInit ==
  /\ apend = [p \in RaceProcs |-> NoAuthCall]
  /\ ahist = << >>

\* what a call that ended leaves in ahist
Ended(p, op, ok, userId, totpCode, usedBackupCode) ==
  [proc |-> p, op |-> op, ok |-> ok, userId |-> userId, totpCode |-> totpCode,
   usedBackupCode |-> usedBackupCode]

RaceFrame ==
  UNCHANGED <<now, rateVars, sessions, resp, issued, authops, qres, logpc, logprev,
              logparams, origin, tampers, clawVars, userVars, termVars, kiloVars,
              cryptoVars, agentVars, vaultVars, burstVars, syncVars, metricVars>>

\* login up to the await of verifyPassword: the row is read by address
LoginCall(p, email, password) ==
  /\ apend[p].op = "none"
  /\ Len(ahist) + Cardinality({q \in RaceProcs : apend[q].op # "none"}) < MaxRaceCalls
  /\ LET found == UserFindByEmail(users, email)
     IN IF found = {}
        THEN /\ audit_log' = AuditLog(audit_log, HexId(nextId),
                   UserAudit("auth.login_failed", UnknownUser, email, ClientIp,
                             UserAgentHeader, UnknownUser,
                             << <<"reason", "user_not_found">> >>), now)
             /\ nextId' = nextId + 1
             /\ ahist' = Append(ahist, Ended(p, "login", FALSE, "", <<"none">>, FALSE))
             /\ UNCHANGED apend
        ELSE /\ apend' = [apend EXCEPT ![p] =
                            [NoAuthCall EXCEPT !.op = "login", !.held = << CHOOSE u \in found : TRUE >>,
                                               !.password = password]]
             /\ UNCHANGED <<audit_log, nextId, ahist>>
  /\ UNCHANGED <<users, minted, consumed>>
  /\ RaceFrame

\* login from the return of verifyPassword: the row that was read is saved
\* with the time of the login
LoginSave(p) ==
  /\ apend[p].op = "login"
  /\ LET user == apend[p].held[1]
         valid == verifyPassword(apend[p].password, user.passwordHash)
     IN /\ IF ~valid
           THEN /\ audit_log' = AuditLog(audit_log, HexId(nextId),
                      UserAudit("auth.login_failed", user.id, user.email, ClientIp,
                                UserAgentHeader, user.id,
                                << <<"reason", "invalid_password">> >>), now)
                /\ UNCHANGED <<users, minted>>
           ELSE /\ users' = UserSave(users, recordLogin(user, now))
                /\ IF user.totpEnabled
                   THEN /\ minted' = minted \cup {generateTempToken(user.id, now, nextId)}
                        /\ UNCHANGED audit_log
                   ELSE /\ audit_log' = AuditLog(audit_log, HexId(nextId),
                              UserAudit("auth.login", user.id, user.email, ClientIp,
                                        UserAgentHeader, user.id,
                                        << <<"method", "password">> >>), now)
                        /\ UNCHANGED minted
        /\ nextId' = nextId + 1
        /\ ahist' = Append(ahist, Ended(p, "login", valid, user.id, <<"none">>, FALSE))
  /\ apend' = [apend EXCEPT ![p] = NoAuthCall]
  /\ UNCHANGED consumed
  /\ RaceFrame

\* verifyTotp up to the await of findById
VerifyCall(p, tempToken, totpCode) ==
  /\ apend[p].op = "none"
  /\ Len(ahist) + Cardinality({q \in RaceProcs : apend[q].op # "none"}) < MaxRaceCalls
  /\ LET userId == validateTempToken(tempToken, now)
         found == UserFindById(users, userId)
     IN IF userId = ""
        THEN /\ ahist' = Append(ahist, Ended(p, "verify", FALSE, "", totpCode, FALSE))
             /\ UNCHANGED apend
        ELSE /\ apend' = [apend EXCEPT ![p] =
                            [NoAuthCall EXCEPT !.op = "verify",
                               !.held = IF found = {} THEN << >>
                                        ELSE << CHOOSE u \in found : TRUE >>,
                               !.totpCode = totpCode]]
             /\ UNCHANGED ahist
  /\ UNCHANGED <<users, audit_log, nextId, minted, consumed>>
  /\ RaceFrame

\* verifyTotp from the return of findById: the code is looked up in the row
\* that was read, and that row without the code is saved
VerifySave(p) ==
  /\ apend[p].op = "verify"
  /\ LET held == apend[p].held
         user == held[1]
         totpCode == apend[p].totpCode
         configured == Len(held) = 1 /\ user.totpEnabled /\ user.totpSecret # NoSecret
         isBackupCode == configured /\ totpCode \in Range(user.backupCodes)
         ok == configured /\
                 (isBackupCode \/ AuthenticatorVerify(totpCode, user.totpSecret, now))
     IN /\ users' = IF isBackupCode
                    THEN UserSave(users, useBackupCode(user, totpCode, now))
                    ELSE users
        /\ IF ok
           THEN /\ audit_log' = AuditLog(audit_log, HexId(nextId),
                      UserAudit("auth.login", user.id, user.email, ClientIp,
                                UserAgentHeader, user.id,
                                << <<"method", "totp">>,
                                   <<"usedBackupCode",
                                     IF isBackupCode THEN "true" ELSE "false">> >>), now)
                /\ nextId' = nextId + 1
           ELSE UNCHANGED <<audit_log, nextId>>
        /\ consumed' = IF isBackupCode THEN consumed \cup {totpCode} ELSE consumed
        /\ ahist' = Append(ahist, Ended(p, "verify", ok,
                                        IF Len(held) = 1 THEN user.id ELSE "",
                                        totpCode, isBackupCode))
  /\ apend' = [apend EXCEPT ![p] = NoAuthCall]
  /\ UNCHANGED minted
  /\ RaceFrame

(***************************************************************************)
(* updateAgentMetrics and the answered branch of checkHealth, one step per *)
(* await: the health row is read, then written.                            *)
(***************************************************************************)
MaxMetricCalls == 3    \* updateAgentMetrics and checkHealth calls started

MetricProcs == {1, 2}  \* calls that can be in flight together

NoMetricCall == [op |-> "none", agentId |-> "", success |-> FALSE, held |-> {}]

MetricsInit ==
  /\ mpend = [p \in MetricProcs |-> NoMetricCall]
  /\ mdone = << >>

\* the table that holds just the row a call has read
HeldTable(held) == [i \in {h.agentId : h \in held} |-> CHOOSE h \in held : h.agentId = i]

MetricsStarted ==
  Len(mdone) + Cardinality({q \in MetricProcs : mpend[q].op # "none"})

MetricsFrame ==
  UNCHANGED <<now, nextId, auditVars, rateVars, authVars, weightedAgents, selections,
              agents, lastSync, disp, dres, cacheload, clawops, userVars, termVars,
              kiloVars, cryptoVars, agentVars, vaultVars, burstVars, syncVars, raceVars>>

\* a dispatch to agent id has made its backend call; updateAgentMetrics up
\* to the return of getHealth.  A probe of agent id was answered (with 2xx
\* or not); checkHealth up to the return of getHealth.
HealthRead(p, op, id, success) ==
  /\ mpend[p].op = "none"
  /\ MetricsStarted < MaxMetricCalls
  /\ mpend' = [mpend EXCEPT ![p] = [op |-> op, agentId |-> id, success |-> success,
                                    held |-> HealthGet(agent_health, id)]]
  /\ UNCHANGED <<agent_health, mdone>>
  /\ MetricsFrame

\* updateAgentMetrics from the return of getHealth: the counts that were
\* read, plus one, are written
MetricsWrite(p) ==
  /\ mpend[p].op = "metrics"
  /\ agent_health' = HealthUpdate(agent_health,
        updateAgentMetrics(HeldTable(mpend[p].held), mpend[p].agentId,
                           mpend[p].success, 0, now))
  /\ mdone' = Append(mdone, [op |-> "metrics", agentId |-> mpend[p].agentId,
                              success |-> mpend[p].success])
  /\ mpend' = [mpend EXCEPT ![p] = NoMetricCall]
  /\ MetricsFrame

\* checkHealth from the return of getHealth: the counts that were read are
\* written with the new status
ProbeWrite(p) ==
  /\ mpend[p].op = "probe"
  /\ LET held == mpend[p].held
         existing == IF held = {} THEN [requestCount |-> 0, errorCount |-> 0]
                     ELSE CHOOSE h \in held : TRUE
     IN agent_health' = HealthUpdate(agent_health,
          HealthRecord(mpend[p].agentId,
                       IF mpend[p].success THEN "online" ELSE "degraded", 0,
                       IF existing.requestCount > 0
                       THEN <<existing.requestCount - existing.errorCount,
                              existing.requestCount>>
                       ELSE <<1, 1>>,
                       existing.requestCount, existing.errorCount, now,
                       IF mpend[p].success THEN "HTTP 200" ELSE "HTTP 500"))
  /\ mdone' = Append(mdone, [op |-> "probe", agentId |-> mpend[p].agentId,
                              success |-> mpend[p].success])
  /\ mpend' = [mpend EXCEPT ![p] = NoMetricCall]
  /\ MetricsFrame

ExtInit ==
  /\ RaceInit
  /\ MetricsInit
  /\ UsersInit
  /\ TermInit
  /\ KiloInit
  /\ CryptoInit
  /\ AgentsInit
  /\ VaultInit
  /\ BurstInit
  /\ ReloadInit

(***************************************************************************)
(* Specifications.                                                         *)
(***************************************************************************)
Init ==
  /\ now = 0
  /\ nextId = 3
  /\ AuditInit
  /\ RateInit
  /\ AuthInit
  /\ ClawInit
  /\ ExtInit

\* the audit service used by one caller at a time
AuditNext ==
  \/ AuditTick
  \/ \E params \in LogParamsSet : Log(params)
  \/ \E params \in QueryParamsSet : Query(params)

SpecAudit == Init /\ [][AuditNext]_vars

\* concurrent AuditService.log calls, interleaved at the await
AuditConcNext ==
  \/ AuditTick
  \/ \E p \in Processes, params \in LogParamsSet : LogRead(p, params)
  \/ \E p \in Processes : LogSave(p)

SpecAuditConc == Init /\ [][AuditConcNext]_vars

\* the audit service with out-of-band edits of the store
AuditTamperNext ==
  \/ AuditTick
  \/ \E params \in LogParamsSet : Log(params)
  \/ \E params \in PageParamsSet : Query(params)
  \/ \E i \in 1..MaxAudit, field \in ContentFields \cup {"fingerprint"} : TamperField(i, field)
  \/ \E i \in 1..MaxAudit, field \in RewriteFields : TamperRewrite(i, field)
  \/ \E i \in 1..MaxAudit : TamperDelete(i)

SpecAuditTamper == Init /\ [][AuditTamperNext]_vars

\* the rate limiter
RateNext ==
  \/ \E d \in RateSteps : RateTick(d)
  \/ \E key \in RateKeys : RateCheck(key)

SpecRate == Init /\ [][RateNext]_vars

\* the auth routes, one request at a time
AuthNext ==
  \/ \E d \in AuthSteps : AuthTick(d)
  \/ \E body \in LoginBodies : LoginRoute(body)
  \/ \E tempToken \in PresentedTokens, totpCode \in PresentedCodes :
        TotpVerifyRoute(tempToken, totpCode)
  \/ \E cookie \in sessions \cup {NoCookie} : TotpSetupRoute(cookie)

SpecAuth == Init /\ [][AuthNext]_vars

\* weighted selection on a stable healthy set
WrrInit ==
  /\ now = 0
  /\ nextId = 3
  /\ AuditInit
  /\ RateInit
  /\ AuthInit
  /\ ExtInit
  /\ weightedAgents \in FreshCaches
  /\ selections = <<>>
  /\ agents = <<>>
  /\ agent_health = <<>>
  /\ lastSync = 0
  /\ disp = NoDispatch
  /\ dres = NoDispatchResult
  /\ cacheload = [agents |-> <<>>, agent_health |-> <<>>, loads |-> 0]
  /\ clawops = [creates |-> 0, checks |-> 0, dispatches |-> 0, deletes |-> 0,
                ticks |-> 0, calls |-> 0, metrics |-> 0]

WrrNext == WrrSelect

SpecWrr == WrrInit /\ [][WrrNext]_vars

\* the orchestrator: registry, health checks and dispatches.  The wall clock
\* at start-up is far past the first 30 s of the epoch.
DispatchInit ==
  /\ now = SYNC_INTERVAL_MS
  /\ nextId = 3
  /\ AuditInit
  /\ RateInit
  /\ AuthInit
  /\ ClawInit
  /\ ExtInit

DispatchNext ==
  \/ \E d \in ClawSteps : ClawTick(d)
  \/ \E dto \in AgentDtos : CreateAgent(dto)
  \/ \E id \in DOMAIN agents : DeleteAgent(id)
  \/ \E id \in DOMAIN agents, probe \in {"ok", "bad", "unreachable"} : CheckHealth(id, probe)
  \/ \E asked \in DOMAIN agents \cup {"", "missing"} : DispatchBegin(asked)
  \/ \E ok \in BOOLEAN : BackendAnswers(ok)
  \/ DispatchStep
  \/ DispatchFail

SpecDispatch == DispatchInit /\ [][DispatchNext]_vars

\* user administration: createUser calls that overlap, changePassword calls
UsersNext ==
  \/ \E p \in UserProcs, email \in NewEmails, password \in NewPasswords :
       CreateUserCall(p, email, password)
  \/ \E p \in UserProcs : CreateUserSave(p)
  \/ \E userId \in DOMAIN users \cup {"no-such-id"},
        currentPassword \in CurrentPasswords, newPassword \in ChangedPasswords :
       ChangePassword(userId, currentPassword, newPassword)

SpecUsers == Init /\ [][UsersNext]_vars

\* the terminal handler: connections, socket events, shell exits
TerminalNext ==
  \/ TerminalConnect
  \/ \E i \in DOMAIN terminals : ShellExit(i)
  \/ \E i \in DOMAIN terminals : SocketClose(i)
  \/ \E i \in DOMAIN terminals : SocketError(i)

SpecTerminal == Init /\ [][TerminalNext]_vars

\* the Kilo configuration route
KiloNext ==
  \E role \in {"admin", "viewer"}, body \in KiloBodies : KiloPutConfig(role, body)

SpecKilo == Init /\ [][KiloNext]_vars

\* one client sending login after login
FloodNext == \E body \in FloodBodies : FloodLogin(body)

SpecFlood == Init /\ [][FloodNext]_vars

\* one encryption and one decryption of its result
CryptoNext ==
  \/ \E m \in Plaintexts, k \in KeyStrings : CryptoEncrypt(m, k)
  \/ \E k2 \in KeyStrings : CryptoDecrypt(k2)

SpecCrypto == Init /\ [][CryptoNext]_vars

\* the orchestrator with the selection of a dispatch running in steps
ReloadNext ==
  \/ \E d \in ClawSteps : ClawTick(d)
  \/ \E dto \in AgentDtos : CreateAgent(dto)
  \/ \E id \in DOMAIN agents : DeleteAgent(id)
  \/ \E id \in DOMAIN agents, probe \in {"ok", "bad", "unreachable"} : CheckHealth(id, probe)
  \/ SelectBegin
  \/ SyncHealth
  \/ SyncAssign
  \/ SelectPick
  \/ \E ok \in BOOLEAN : BackendAnswers(ok)
  \/ DispatchStep
  \/ DispatchFail

SpecReload == DispatchInit /\ [][ReloadNext]_vars

\* dispatches whose backend call ends in each of the ways callAgent can end
CallNext ==
  \/ \E d \in ClawSteps : ClawTick(d)
  \/ \E dto \in AgentDtos : CreateAgent(dto)
  \/ \E id \in DOMAIN agents, probe \in {"ok", "bad", "unreachable"} : CheckHealth(id, probe)
  \/ \E asked \in DOMAIN agents \cup {"", "missing"} : DispatchBegin(asked)
  \/ \E ok \in BOOLEAN : BackendAnswers(ok)
  \/ \E error \in FetchErrors : BackendUnreachable(error)
  \/ DispatchStep
  \/ DispatchFail

SpecCall == DispatchInit /\ [][CallNext]_vars

\* the credentials and codes that calls in flight together carry
RaceEmails == {AdminEmail, "nobody@peanut.local"}
RacePasswords == {SeedPassword, "NewPassword456!"}
RaceCodes ==
  {TotpCode(users[HexId(1)].totpSecret, now), <<"totp", 0, 0>>}
    \cup {issued[k] : k \in 1..Min(1, Len(issued))}

\* login and verifyTotp calls that overlap each other, and requests that
\* run between their steps
RaceNext ==
  \/ \E body \in {b \in LoginBodies : b.email = AdminEmail /\ b.password = SeedPassword} :
       LoginRoute(body)
  \/ \E cookie \in sessions : TotpSetupRoute(cookie)
  \/ ChangePassword(HexId(1), SeedPassword, "NewPassword456!")
  \/ \E p \in RaceProcs, email \in RaceEmails, password \in RacePasswords :
       LoginCall(p, email, password)
  \/ \E p \in RaceProcs : LoginSave(p)
  \/ \E p \in RaceProcs, tempToken \in minted, totpCode \in RaceCodes :
       VerifyCall(p, tempToken, totpCode)
  \/ \E p \in RaceProcs : VerifySave(p)

SpecRace == Init /\ [][RaceNext]_vars

\* dispatches that keep arriving while the cache is invalidated now and then
StarveNext ==
  \/ \E dto \in AgentDtos : CreateAgent(dto)
  \/ \E id \in DOMAIN agents, probe \in {"ok", "bad", "unreachable"} : CheckHealth(id, probe)
  \/ SelectAgent
  \/ InvalidateCache

\* dispatches without agentId never cease, and neither do the invalidations
SpecStarve ==
  /\ DispatchInit
  /\ [][StarveNext]_vars
  /\ WF_vars(SelectAgent)
  /\ WF_vars(InvalidateCache)

\* dispatches during which the database refuses a statement
FaultNext ==
  \/ \E d \in ClawSteps : ClawTick(d)
  \/ \E dto \in AgentDtos : CreateAgent(dto)
  \/ \E asked \in DOMAIN agents \cup {"", "missing"} : DispatchBegin(asked)
  \/ \E ok \in BOOLEAN : BackendAnswers(ok)
  \/ DispatchStep
  \/ \E recovered \in BOOLEAN : DispatchStepRaises(recovered)
  \/ DispatchFail

SpecFault == DispatchInit /\ [][FaultNext]_vars

\* metric updates of dispatches and answered probes that overlap
MetricsNext ==
  \/ \E dto \in AgentDtos : CreateAgent(dto)
  \/ \E p \in MetricProcs, op \in {"metrics", "probe"}, id \in DOMAIN agents,
        success \in BOOLEAN : HealthRead(p, op, id, success)
  \/ \E p \in MetricProcs : MetricsWrite(p)
  \/ \E p \in MetricProcs : ProbeWrite(p)

SpecMetrics == DispatchInit /\ [][MetricsNext]_vars

\* callers of check whose policies differ in windowMs
PruneNext ==
  \/ \E d \in RateSteps : RateTick(d)
  \/ \E key \in RateKeys : RateCheck(key)
  \/ RateCheckWith(ShortKey, ShortPolicy)

SpecPrune == Init /\ [][PruneNext]_vars

\* one client calling check on one key while the clock moves on
BurstNext ==
  \/ \E key \in BurstKeys : BurstCheck(key)
  \/ BurstTick

SpecBurst == Init /\ [][BurstNext]_vars

\* the credential vault: configuration writes by an admin and status probes
VaultNext ==
  \/ \E body \in KiloBodies : KiloPutConfig("admin", body)
  \/ \E env \in EnvKeys, upstream \in Upstreams : KiloCheckConnection(env, upstream)

SpecVault == Init /\ [][VaultNext]_vars

\* the /agents routes called by sessions of every role
AgentsNext ==
  \/ \E role \in Roles, body \in CreateBodies : PostAgents(role, body)
  \/ \E role \in Roles, id \in DOMAIN agents \cup {"missing"}, body \in UpdateBodies :
       PutAgent(role, id, body)
  \/ \E role \in Roles, id \in DOMAIN agents \cup {"missing"} :
       DeleteAgentRoute(role, id)

SpecAgents == Init /\ [][AgentsNext]_vars

Next == AuditNext \/ RateNext \/ AuthNext
Spec == Init /\ [][Next]_vars

C2_NoFork ==
  \A i, j \in 1..Len(audit_log) :
    i # j => audit_log[i].previousFingerprint # audit_log[j].previousFingerprint

\* the position of stored row i on the page of an answered query, counted
\* from 0 in the order of the answer
PageRank(i, params) ==
  Cardinality({j \in 1..Len(audit_log) :
                 MatchesFilter(audit_log[j], params) /\ RowBefore(audit_log, j, i)})

OnPage(params) ==
  {i \in 1..Len(audit_log) :
     /\ MatchesFilter(audit_log[i], params)
     /\ PageRank(i, params) >= (params.page - 1) * params.limit
     /\ PageRank(i, params) < params.page * params.limit}

C4_RecomputeDetects ==
  \A i \in 1..Len(audit_log) :
    audit_log[i].fingerprint = origin[i].fingerprint =>
      (recomputeAndVerify(audit_log[i]) <=>
         \A f \in ContentFields : audit_log[i][f] = origin[i][f])

\* C5: after a past entry was deleted, or altered with its own fingerprint
\* rewritten to match, a query whose page holds the affected position and
\* its successor reports integrity_valid = false: a page on which an entry
\* does not carry the fingerprint of the entry before it is never reported
\* as valid.
C5_BrokenLinkReported ==
  qres.valid =>
    ((\E k \in 1..(Len(qres.result.entries) - 1) :
        qres.result.entries[k].previousFingerprint
          # qres.result.entries[k + 1].fingerprint)
       => qres.result.integrityValid = FALSE)

(***************************************************************************)
(* Properties of the rate limiter.                                         *)
(***************************************************************************)
\* C6: for one key and its policy, among the check calls that fall into the
\* same tumbling window the first max_requests return and every later one
\* raises RateLimitError; the first call of a later window returns again.
C6_WindowLimit ==
  rlres.valid =>
    (rlres.ok <=>
       rlcalls.perKey[rlres.key].n <= PolicyOf(rlres.key).maxRequests)

\* the first call of a window returned after the window before it was
\* exhausted by two calls and more beyond the limit
C6_Witness ==
  /\ rlres.valid
  /\ rlres.ok
  /\ rlcalls.perKey[rlres.key].n = 1
  /\ \E r \in rate_limit_windows :
       /\ r.key[1] = rlres.key
       /\ r.window_start < rlcalls.perKey[rlres.key].w
       /\ r.count >= PolicyOf(rlres.key).maxRequests + 2

(***************************************************************************)
(* Properties of the authentication core.                                  *)
(***************************************************************************)
\* C7: for a user whose totp_enabled is true, POST /auth/login issues no
\* session token (it answers require_totp = true with an intermediate token
\* only); a session token for that user is issued only by a POST
\* /auth/totp/verify that succeeded.
C7_NoSessionWithoutTotp ==
  [][ /\ \A s \in sessions' \ sessions :
           users[s.sub].totpEnabled =>
             /\ s.totpVerified
             /\ resp'.route = "totp" /\ resp'.status = 200 /\ resp'.cookie = s
      /\ (authops'.logins = authops.logins + 1 /\ resp'.status = 200) =>
           IF resp'.requireTotp
           THEN /\ resp'.cookie = NoCookie /\ sessions' = sessions
                /\ resp'.tempToken \in minted'
                /\ users[resp'.tempToken[2].sub].totpEnabled
           ELSE /\ resp'.cookie \in sessions'
                /\ ~users[resp'.cookie.sub].totpEnabled
    ]_vars

\* the admin has enabled TOTP and a login with the right password was
\* answered with an intermediate token
C7_Witness ==
  /\ users[HexId(1)].totpEnabled
  /\ resp.route = "login" /\ resp.status = 200 /\ resp.requireTotp
  /\ resp.tempToken \in minted

\* C8: totp/verify accepts an intermediate token for user u only if login
\* minted it for u after a successful password check and it has not expired;
\* a token the client assembled itself is rejected with UNAUTHORIZED.
C8_OnlyMintedTokens ==
  (resp.route = "totp" /\ resp.status = 200) =>
    /\ resp.reqToken \in minted
    /\ resp.reqToken[2].sub = resp.cookie.sub
    /\ resp.reqToken[2].exp >= now

\* C9: after a totp/verify for user u succeeded with backup code c, c is no
\* longer among u's stored backup_codes while every other code still is, and
\* a later totp/verify presenting c again fails (401 UNAUTHORIZED unless the
\* rate limiter answers first) and issues no session token.
C9_BackupCodeSingleUse ==
  [][ (authops'.verifies = authops.verifies + 1) =>
        /\ (resp'.status = 200 /\ resp'.reqCode[1] = "backup") =>
             LET u == resp'.cookie.sub
             IN /\ resp'.reqCode \notin Range(users'[u].backupCodes)
                /\ Range(users'[u].backupCodes)
                     = Range(users[u].backupCodes) \ {resp'.reqCode}
                /\ Len(users'[u].backupCodes) = Len(users[u].backupCodes) - 1
        /\ (resp'.reqCode \in consumed) =>
             /\ resp'.status \in {401, 429}
             /\ resp'.status = 401 => resp'.code = "UNAUTHORIZED"
             /\ sessions' = sessions
    ]_vars

\* a backup code was accepted once and its second presentation was refused
C9_Witness ==
  /\ resp.route = "totp" /\ resp.status = 401
  /\ resp.reqCode \in consumed
  /\ Len(users[HexId(1)].backupCodes) = BACKUP_CODE_COUNT - 1

(***************************************************************************)
(* Properties of the weighted selection.                                   *)
(***************************************************************************)
CountIn(seq, from, to, x) == Cardinality({j \in from..to : seq[j] = x})

\* C10: on a stable healthy set and a freshly loaded cache, every block of
\* T = sum of the weights consecutive selections returns agent i exactly w_i
\* times.
C10_BlockShare ==
  LET T == SumWeights(weightedAgents)
  IN \A start \in 1..(Len(selections) - T + 1) :
       \A k \in 1..Len(weightedAgents) :
          CountIn(selections, start, start + T - 1, weightedAgents[k].agent.id)
            = weightedAgents[k].agent.weight

\* weights 5, 3, 2 and two full rounds of selections
C10_Witness ==
  /\ Len(weightedAgents) = 3
  /\ weightedAgents[1].agent.weight = 5
  /\ weightedAgents[2].agent.weight = 3
  /\ weightedAgents[3].agent.weight = 2
  /\ Len(selections) = 20


(***************************************************************************)
(* Properties of the dispatch path.                                        *)
(***************************************************************************)
\* the agents that were registered with health status online when the cache
\* was last loaded
OnlineAtLoad ==
  {a \in DOMAIN cacheload.agents :
     \E h \in HealthGet(cacheload.agent_health, a) : h.status = "online"}

\* C11: a dispatch without agent_id goes only to an agent that was registered
\* and online at the most recent cache load; when there is none it fails with
\* EXTERNAL_SERVICE_ERROR, makes no backend call and changes no health row.
C11_UnnamedToHealthy ==
  [][ (clawops'.dispatches = clawops.dispatches + 1 /\ ~dres'.named) =>
        IF OnlineAtLoad' = {}
        THEN /\ dres'.valid /\ ~dres'.ok /\ dres'.code = "EXTERNAL_SERVICE_ERROR"
             /\ disp'.pc = "idle"
             /\ clawops'.calls = clawops.calls
             /\ agent_health' = agent_health
        ELSE /\ disp'.pc = "call"
             /\ disp'.agentId \in OnlineAtLoad'
             /\ clawops'.calls = clawops.calls + 1
    ]_vars

\* an unnamed dispatch is being served from the cache by an agent whose
\* health row has meanwhile left the status online
C11_Witness ==
  /\ disp.pc = "call" /\ ~disp.named
  /\ disp.agentId \in OnlineAtLoad
  /\ disp.agentId \in DOMAIN agent_health
  /\ agent_health[disp.agentId].status = "degraded"

\* C12: a dispatch that names agent_id is served by exactly that agent
\* whatever its health status; when no such agent is registered it fails with
\* NOT_FOUND without a backend call; in both cases the weighted-selection
\* cache and every current_weight stay as they were.
C12_NamedBypassesSelection ==
  [][ /\ (clawops'.dispatches = clawops.dispatches + 1 /\ dres'.named) =>
           /\ IF dres'.asked \in DOMAIN agents
              THEN /\ disp'.pc = "call" /\ disp'.agentId = dres'.asked
                   /\ clawops'.calls = clawops.calls + 1
              ELSE /\ dres'.valid /\ ~dres'.ok /\ dres'.code = "NOT_FOUND"
                   /\ disp'.pc = "idle"
                   /\ clawops'.calls = clawops.calls
           /\ weightedAgents' = weightedAgents /\ lastSync' = lastSync
      /\ (disp.pc # "idle" /\ disp.named /\ disp'.pc # disp.pc) =>
           (weightedAgents' = weightedAgents /\ lastSync' = lastSync)
    ]_vars

\* a named dispatch is being served by an offline agent that the loaded
\* cache does not hold
C12_Witness ==
  /\ disp.pc = "call" /\ disp.named
  /\ disp.agentId \in DOMAIN agent_health
  /\ agent_health[disp.agentId].status = "offline"
  /\ Len(weightedAgents) > 0
  /\ \A k \in 1..Len(weightedAgents) : weightedAgents[k].agent.id # disp.agentId

RequestEntries(rid) ==
  {k \in 1..Len(audit_log) :
     /\ audit_log[k].action = "agent.request"
     /\ audit_log[k].details[1] = <<"requestId", rid>>}

\* C14: within a dispatch that returns a result r the metric update is
\* persisted before the agent.request entry is appended, and the entry
\* (resource_id = r.agent_id) before r is returned: every returned result has
\* its agent.request entry in the audit log.
C14_MetricsAuditResponse ==
  /\ (dres.valid /\ dres.ok) =>
       \E k \in RequestEntries(dres.requestId) :
         audit_log[k].resourceId = dres.agentId
  /\ (disp.pc # "idle" /\ RequestEntries(disp.requestId) # {}) =>
       /\ disp.trace = <<"metrics", "audit">>
       /\ disp.alone =>
            \E h \in disp.health0 :
              agent_health[disp.agentId].requestCount = h.requestCount + 1
  /\ disp.pc = "idle" => disp.trace \in {<<>>, <<"metrics", "audit", "return">>}

\* a result with a latency above 0 was returned
C14_Witness ==
  /\ dres.valid /\ dres.ok /\ dres.latencyMs > 0
  /\ disp.pc = "idle" /\ disp.trace = <<"metrics", "audit", "return">>

(***************************************************************************)
(* Properties of login failures, password change and user creation.        *)
(***************************************************************************)
\* the POST /auth/login request with this body reaches AuthService.login and
\* the password check fails there, for an address no user has or for a wrong
\* password of a known address
LoginFails(body) ==
  /\ RateLimitCheck(rate_limit_windows, LoginKey, LoginPolicy, now).ok
  /\ body.password # ""
  /\ \A u \in UserFindByEmail(users, body.email) :
       ~verifyPassword(body.password, u.passwordHash)

\* C15: a login with an email that belongs to no user and a login with a
\* known email but a wrong password have the same visible outcome: both fail
\* with UNAUTHORIZED and the identical message, issue no token, and each
\* appends exactly one auth.login_failed audit entry.
C15_SameFailure ==
  [][ \A body \in FloodBodies :
        (FloodLogin(body) /\ LoginFails(body)) =>
          /\ resp' = Response("login", 401, "UNAUTHORIZED", "Invalid email or password")
          /\ sessions' = sessions /\ minted' = minted /\ users' = users
          /\ Len(audit_log') = Len(audit_log) + 1
          /\ SubSeq(audit_log', 1, Len(audit_log)) = audit_log
          /\ audit_log'[Len(audit_log')].action = "auth.login_failed"
    ]_vars

\* both kinds of failure have happened: the log holds an entry for an unknown
\* address and one for a wrong password, and the last answer is the 401
C15_Witness ==
  /\ resp = Response("login", 401, "UNAUTHORIZED", "Invalid email or password")
  /\ \E k \in 1..Len(audit_log) :
       /\ audit_log[k].action = "auth.login_failed"
       /\ audit_log[k].userId = UnknownUser
       /\ audit_log[k].details = << <<"reason", "user_not_found">> >>
  /\ \E k \in 1..Len(audit_log) :
       /\ audit_log[k].action = "auth.login_failed"
       /\ audit_log[k].userId = HexId(1)
       /\ audit_log[k].details = << <<"reason", "invalid_password">> >>

\* C16: changePassword(user, current, new) succeeds only when the user
\* exists, new has at least 12 characters and current verifies against the
\* stored hash; on success the stored hash verifies new and exactly one
\* auth.password_changed entry is appended; on each failure (NOT_FOUND,
\* VALIDATION_ERROR, UNAUTHORIZED) the stored hash stays as it was and no
\* audit entry is appended.
C16_ChangePassword ==
  [][ \A userId \in DOMAIN users \cup {"no-such-id"},
         currentPassword \in CurrentPasswords, newPassword \in ChangedPasswords :
        ChangePassword(userId, currentPassword, newPassword) =>
          IF ures'.ok
          THEN /\ userId \in DOMAIN users
               /\ Len(newPassword) >= 12
               /\ verifyPassword(currentPassword, users[userId].passwordHash)
               /\ verifyPassword(newPassword, users'[userId].passwordHash)
               /\ Len(audit_log') = Len(audit_log) + 1
               /\ SubSeq(audit_log', 1, Len(audit_log)) = audit_log
               /\ audit_log'[Len(audit_log')].action = "auth.password_changed"
               /\ audit_log'[Len(audit_log')].resourceId = userId
          ELSE /\ users' = users
               /\ audit_log' = audit_log
               /\ ures'.code = (IF userId \notin DOMAIN users THEN "NOT_FOUND"
                                ELSE IF Len(newPassword) < 12 THEN "VALIDATION_ERROR"
                                ELSE "UNAUTHORIZED")
               /\ ures'.code = "UNAUTHORIZED" =>
                    ~verifyPassword(currentPassword, users[userId].passwordHash)
    ]_vars

\* the admin's password was changed twice: the second change presented the
\* first new password as the current one, and the seeded password no longer
\* verifies
C16_Witness ==
  /\ ures.op = "changePassword" /\ ures.ok /\ ures.userId = HexId(1)
  /\ userops.changes = 2
  /\ Len(audit_log) = 2
  /\ audit_log[2].action = "auth.password_changed"
  /\ verifyPassword("NewPassword456!", users[HexId(1)].passwordHash)
  /\ ~verifyPassword(SeedPassword, users[HexId(1)].passwordHash)

\* the address is held by a stored user
EmailHeld(email) == \E i \in DOMAIN users : users[i].email = ToLowerCase(email)

\* C17: createUser rejects an email already held by a stored user with
\* CONFLICT and a password shorter than 12 characters with VALIDATION_ERROR,
\* persisting nothing in either case; after any sequence of createUser calls
\* no two stored users have the same email.
C17_UniqueEmail ==
  /\ [](\A i, j \in DOMAIN users : users[i].email = users[j].email => i = j)
  /\ [][ \A p \in UserProcs, email \in NewEmails, password \in NewPasswords :
           CreateUserCall(p, email, password) =>
             /\ EmailHeld(email) =>
                  /\ ures' = [op |-> "createUser", ok |-> FALSE,
                              code |-> "CONFLICT", userId |-> ""]
                  /\ users' = users /\ upend' = upend
             /\ (~EmailHeld(email) /\ Len(password) < 12) =>
                  /\ ures' = [op |-> "createUser", ok |-> FALSE,
                              code |-> "VALIDATION_ERROR", userId |-> ""]
                  /\ users' = users /\ upend' = upend
     ]_vars

\* a second user is stored under the lower-cased address and a later
\* createUser with that address was rejected with CONFLICT
C17_Witness ==
  /\ Cardinality(DOMAIN users) = 2
  /\ EmailHeld("New@Peanut.local")
  /\ ures = [op |-> "createUser", ok |-> FALSE, code |-> "CONFLICT", userId |-> ""]
  /\ userops.creates >= 2

(***************************************************************************)
(* Properties of the terminal handler, the error handler and the Kilo      *)
(* configuration.                                                          *)
(***************************************************************************)
\* the connections whose socket is open and whose shell is running
LiveTerminals ==
  {i \in DOMAIN terminals :
     terminals[i].socket = "open" /\ terminals[i].shell = "running"}

\* C18: at any moment at most 10 terminal WebSocket sessions are live: after
\* any sequence of connection opens, socket close or error events and shell
\* exits, a new connection is accepted only when fewer than 10 sessions are
\* live, and otherwise it is refused and closed.
C18_AtMostTenLive == Cardinality(LiveTerminals) <= MAX_CONNECTIONS

\* C19: when a request is refused by the rate limiter (for example the 11th
\* POST /auth/login from one IP within one 60 s window), the HTTP response
\* has status 429, error code RATE_LIMIT_EXCEEDED and a Retry-After header
\* carrying the retry_after seconds of the raised RateLimitError.
C19_RetryAfterHeader ==
  [][ \A body \in FloodBodies :
        LET rl == RateLimitCheck(rate_limit_windows, LoginKey, LoginPolicy, now)
        IN (FloodLogin(body) /\ ~rl.ok) =>
             /\ resp'.status = 429
             /\ resp'.code = "RATE_LIMIT_EXCEEDED"
             /\ <<"Retry-After", rl.retryAfter>> \in resp'.headers
    ]_vars

\* the ciphertext stored in kilo_config, NULL when there is no row
StoredCiphertext(table) ==
  IF table = << >> THEN NullText ELSE table[1].api_key_encrypted

\* C20: saveConfig called without an api_key leaves the stored ciphertext
\* exactly as it was (an absent key stays absent), saveConfig called with an
\* api_key replaces it by a fresh encryption of that key, and in both cases
\* base_url, model and max_tokens_per_request become the supplied values.
C20_SaveConfigKeepsKey ==
  [][ (kiloops' = kiloops + 1 /\ kres'.status = 200) =>
          LET config == ConfigParsed(kres'.body)
          IN /\ Len(kilo_config') = 1
             /\ IF config.apiKey = Undefined
                THEN StoredCiphertext(kilo_config') = StoredCiphertext(kilo_config)
                ELSE /\ StoredCiphertext(kilo_config') # NullText
                     /\ StoredCiphertext(kilo_config') # StoredCiphertext(kilo_config)
                     /\ StoredCiphertext(kilo_config')[1] = nextId
                     /\ decryptAES256(StoredCiphertext(kilo_config'), KiloEncryptionKey)
                          = [ok |-> TRUE, error |-> "", value |-> config.apiKey]
             /\ kilo_config'[1].base_url = config.baseUrl
             /\ kilo_config'[1].model = config.model
             /\ kilo_config'[1].max_tokens_per_request = config.maxTokensPerRequest
    ]_vars

\* a key was stored, then replaced by another, and the last accepted request,
\* which supplied no key, changed the other three fields and kept the
\* ciphertext
C20_Witness ==
  /\ kiloops = 3
  /\ kres.status = 200 /\ kres.body.apiKey = Undefined
  /\ kilo_config # << >>
  /\ StoredCiphertext(kilo_config) # NullText
  /\ StoredCiphertext(kilo_config)[1] = 4
  /\ decryptAES256(StoredCiphertext(kilo_config), KiloEncryptionKey).value = "sk-kilo-key-two"
  /\ kilo_config[1].base_url = "https://kilo.example"
  /\ kilo_config[1].max_tokens_per_request = 4096

(***************************************************************************)
(* Properties of the AES helpers.                                          *)
(***************************************************************************)
\* C21: for every plaintext m and every key string k,
\* decryptAES256(encryptAES256(m, k), k) = m, and for every key string k'
\* different from k, decryptAES256(encryptAES256(m, k), k') fails with an
\* error instead of returning a plaintext.
C21_RoundTrip ==
  /\ cry.pc # "idle" => cry.enc.ok
  /\ cry.pc = "done" =>
       IF cry.k2 = cry.k
       THEN cry.dec.ok /\ cry.dec.value = cry.m
       ELSE ~cry.dec.ok

(***************************************************************************)
(* Properties of the agent registry behind the /agents routes.             *)
(***************************************************************************)
\* the bounds of an agent row; temperatures are counted in tenths
WithinBounds(row) ==
  /\ Len(row.name) >= 2 /\ Len(row.name) <= 64
  /\ Len(row.model) >= 1
  /\ row.maxTokens >= 1 /\ row.maxTokens <= 200000
  /\ row.temperature >= 0 /\ row.temperature <= 20
  /\ row.priority >= 1 /\ row.priority <= 10
  /\ row.weight >= 1 /\ row.weight <= 100

RegistryFrame == UNCHANGED <<agents, agent_health, audit_log>>

C23_RoleGates ==
  [][(/\ agentops' = agentops + 1
      /\ \/ ares'.role = "viewer"
         \/ ares'.role = "operator" /\ ares'.route = "DELETE /agents/:id")
     => /\ ares'.response.status = 403
        /\ ares'.response.code = "FORBIDDEN"
        /\ RegistryFrame]_vars

\* an operator asked to delete a registered agent, was refused, and the
\* agent and its health row are still there
C23_Witness ==
  /\ ares.route = "DELETE /agents/:id"
  /\ ares.role = "operator"
  /\ ares.response.code = "FORBIDDEN"
  /\ ares.id \in DOMAIN agents
  /\ ares.id \in DOMAIN agent_health

(***************************************************************************)
(* Properties of the vault status probe.                                   *)
(***************************************************************************)
\* C24: checkConnection never raises; it answers connected = false when no
\* key is stored and when the usage probe failed (the key does not decrypt,
\* KILO_ENCRYPTION_KEY is not set, the upstream failed), and connected = true
\* with the usage exactly when a key is stored and the usage probe succeeded.
C24_StatusNeverRaises ==
  kconn.checks > 0 =>
    /\ ~kconn.status.raised
    /\ ~kconn.hadKey => ~kconn.status.connected
    /\ ~kconn.probe.ok => ~kconn.status.connected
    /\ kconn.hadKey /\ kconn.probe.ok =>
         kconn.status.connected /\ kconn.status.usage = kconn.probe.value
    /\ ~kconn.status.connected => kconn.status.usage = NoUsage

\* a key is stored, the process has another KILO_ENCRYPTION_KEY, the upstream
\* would have answered: the probe answered connected = false
C24_Witness ==
  /\ kconn.checks > 0
  /\ kconn.hadKey
  /\ kconn.env = RepeatKey("b", 64)
  /\ kconn.upstream = "usage"
  /\ ~kconn.status.connected
  /\ ~kconn.status.raised

(***************************************************************************)
(* Properties of the rate limiter's backoff.                               *)
(***************************************************************************)
\* seconds, rounded up
Seconds(ms) == CeilDiv(ms, 1000)

\* C25: under a policy with exponentialBackoff, the k-th call refused in a
\* window (it found count = maxRequests + k) advertises
\* ceil(min(maxBackoffMs, windowMs * 2^floor(k / 10)) / 1000) seconds; over
\* the refused calls of one window the value never decreases, ten refused
\* calls later it has doubled or reached the cap, and it never exceeds
\* maxBackoffMs.
C25_BackoffSchedule ==
  (burst.checks > 0 /\ PolicyOf(burst.key).exponentialBackoff) =>
    LET cfg == PolicyOf(burst.key)
        refused == burst.refused
    IN \A k \in 1..Len(refused) :
         /\ refused[k] = Seconds(Min(cfg.maxBackoffMs, cfg.windowMs * Pow2(k \div 10)))
         /\ refused[k] <= Seconds(cfg.maxBackoffMs)
         /\ k > 1 => refused[k] >= refused[k - 1]
         /\ k > 10 => refused[k] = Min(Seconds(cfg.maxBackoffMs), 2 * refused[k - 10])

\* forty login attempts were refused in one window: the first was told 60 s,
\* the tenth 120 s, the twentieth 240 s, the thirtieth and the fortieth 300 s
C25_Witness ==
  /\ burst.key = LoginKey
  /\ Len(burst.refused) = 40
  /\ burst.refused[1] = 60
  /\ burst.refused[10] = 120
  /\ burst.refused[20] = 240
  /\ burst.refused[30] = 300
  /\ burst.refused[40] = 300

(***************************************************************************)
(* Properties of failed totp/verify requests.                              *)
(***************************************************************************)
\* a totp/verify answered 401 for an intermediate token that is expired or
\* malformed, or for a code that is neither the current TOTP code nor one of
\* the user's remaining backup codes
VerifyFailed(r) ==
  /\ r.route = "totp"
  /\ r.status = 401
  /\ r.message # "TOTP not configured"

\* C26: two failed totp/verify requests in a row are answered with the same
\* error code and the same message, whether the intermediate token was
\* expired or malformed, the TOTP code wrong, or the backup code not among
\* the user's remaining codes.
C26_SameVerifyFailure ==
  [][(VerifyFailed(resp) /\ VerifyFailed(resp'))
     => (resp'.code = resp.code /\ resp'.message = resp.message)]_vars

(***************************************************************************)
(* Properties of the selector after failures and deletions.                *)
(***************************************************************************)
\* the last write to the agent's health row was that of a failed dispatch
DegradedByDispatch(health, id) ==
  \E h \in HealthGet(health, id) :
    h.status = "degraded" /\ h.details = "Last request failed"

\* C27: a weighted selection does not return an agent whose health row was
\* set to degraded by a failed dispatch and has not become online since.
C27_DegradedNotSelected ==
  [][(/\ clawops'.dispatches = clawops.dispatches + 1
      /\ ~dres'.named
      /\ disp'.pc = "call")
     => ~DegradedByDispatch(agent_health, disp'.agentId)]_vars

\* C28: a weighted selection returns only agents that were registered when
\* the selection started: not one whose deleteAgent had returned before.
C28_DeletedNotSelected ==
  sync.picked # "" => sync.picked \in sync.pickedFrom

(***************************************************************************)
(* Properties of the agent_health rows.                                    *)
(***************************************************************************)
\* success_rate, kept as <<numerator, denominator>>, equals the fraction n / d
RateIs(successRate, n, d) == successRate[1] * d = n * successRate[2]

\* C29: every agent_health row has 0 <= error_count <= request_count, and
\* success_rate = (request_count - error_count) / request_count when
\* request_count > 0, success_rate = 1 when request_count = 0.
C29_SuccessRateInvariant ==
  \A id \in DOMAIN agent_health :
    LET h == agent_health[id]
    IN /\ 0 <= h.errorCount /\ h.errorCount <= h.requestCount
       /\ IF h.requestCount > 0
          THEN RateIs(h.successRate, h.requestCount - h.errorCount, h.requestCount)
          ELSE RateIs(h.successRate, 1, 1)

\* C30: a health probe leaves request_count and error_count of every
\* agent_health row as they were, whatever the probe's outcome.
C30_ProbeKeepsCounts ==
  [][clawops'.checks = clawops.checks + 1 =>
       \A id \in DOMAIN agent_health :
         /\ id \in DOMAIN agent_health'
         /\ agent_health'[id].requestCount = agent_health[id].requestCount
         /\ agent_health'[id].errorCount = agent_health[id].errorCount]_vars

(***************************************************************************)
(* Properties of the backend call, the selection step and the windows.     *)
(***************************************************************************)
\* C31: a dispatch makes at most one backend call and never falls back to
\* another agent; when that call ends with a non-2xx status, a transport
\* failure or the 30 s timeout, the dispatch fails with
\* EXTERNAL_SERVICE_ERROR (HTTP 502).
C31_FailureIsExternalService ==
  /\ [](clawops.calls <= clawops.dispatches)
  /\ [][ /\ (disp.pc # "idle" /\ disp'.pc # "idle") => disp'.agentId = disp.agentId
         /\ (disp.pc # "idle") => clawops'.calls = clawops.calls
         /\ (disp.pc = "failed" /\ disp'.pc = "idle") =>
              /\ dres'.valid /\ ~dres'.ok
              /\ dres'.agentId = disp.agentId
              /\ dres'.code = "EXTERNAL_SERVICE_ERROR"
       ]_vars

\* currentWeight of entry k after the weights were added
Bumped(was, k) == was[k].currentWeight + was[k].agent.weight

\* C32: one weighted selection on the cached list adds each agent's weight to
\* its current_weight, returns the agent whose resulting current_weight is
\* largest (the earliest in list order when several are equal), and subtracts
\* the sum of all weights from the returned agent's current_weight only; the
\* cached list and the other agents' incremented current_weight are kept.
C32_SelectionStep ==
  [][ (Len(selections') = Len(selections) + 1) =>
        LET was == weightedAgents
            n == Len(was)
            picked == selections'[Len(selections')]
        IN /\ Len(weightedAgents') = n
           /\ \A k \in 1..n : weightedAgents'[k].agent = was[k].agent
           /\ \E b \in 1..n :
                /\ was[b].agent.id = picked
                /\ \A k \in 1..n : Bumped(was, k) <= Bumped(was, b)
                /\ \A k \in 1..(b - 1) : Bumped(was, k) < Bumped(was, b)
                /\ weightedAgents'[b].currentWeight = Bumped(was, b) - SumWeights(was)
                /\ \A k \in (1..n) \ {b} :
                     weightedAgents'[k].currentWeight = Bumped(was, k)
    ]_vars

\* of three agents the second was returned although the third had the same
\* incremented current_weight
C32_Witness ==
  /\ Len(weightedAgents) = 3
  /\ Len(selections) >= 3
  /\ selections[Len(selections)] = weightedAgents[2].agent.id
  /\ weightedAgents[3].currentWeight
       = weightedAgents[2].currentWeight + SumWeights(weightedAgents)
  /\ weightedAgents[1].currentWeight < weightedAgents[3].currentWeight

RECURSIVE SumCurrent(_)
SumCurrent(was) ==
  IF Len(was) = 0 THEN 0 ELSE was[1].currentWeight + SumCurrent(Tail(was))

\* C40: between two cache reloads, after every weighted selection the
\* current_weight values of the cached agents sum to 0, and each lies
\* strictly between minus the total weight and plus the total weight.
C40_CurrentWeightBalance ==
  /\ SumCurrent(weightedAgents) = 0
  /\ \A k \in 1..Len(weightedAgents) :
       /\ weightedAgents[k].currentWeight > 0 - SumWeights(weightedAgents)
       /\ weightedAgents[k].currentWeight < SumWeights(weightedAgents)

\* after some selections one agent of three is far below zero and another
\* above it
C40_Witness ==
  /\ Len(weightedAgents) = 3
  /\ Len(selections) >= 2
  /\ \E j, k \in 1..3 :
       /\ weightedAgents[j].currentWeight <= 2 - SumWeights(weightedAgents)
       /\ weightedAgents[k].currentWeight >= 2

\* C33: the j-th check call on a key within one window, for
\* 1 <= j <= max_requests, returns limit = max_requests,
\* remaining = max_requests - j and reset_at = window_start + window_ms with
\* window_start = floor(now / window_ms) * window_ms, so reset_at lies after
\* the time of the call.
C33_AllowedCallResult ==
  rlres.valid =>
    LET cfg == PolicyOf(rlres.key)
        j == rlcalls.perKey[rlres.key].n
        windowStart == (rlres.at \div cfg.windowMs) * cfg.windowMs
    IN (1 <= j /\ j <= cfg.maxRequests) =>
         /\ rlres.ok
         /\ rlres.limit = cfg.maxRequests
         /\ rlres.remaining = cfg.maxRequests - j
         /\ rlres.resetAt = windowStart + cfg.windowMs
         /\ rlres.resetAt > rlres.at

\* the last allowed call of a window that began after the epoch, made half
\* a minute into the window
C33_Witness ==
  /\ rlres.valid /\ rlres.ok
  /\ rlcalls.perKey[rlres.key].n = PolicyOf(rlres.key).maxRequests
  /\ rlres.remaining = 0
  /\ rlcalls.perKey[rlres.key].w > 0
  /\ rlres.at > rlcalls.perKey[rlres.key].w

\* C37: a check call on key A, under any policy, never changes the stored
\* count of another key B's current window; the pruning step of a call made
\* with a short window_ms does not remove a still-current window row that B
\* keeps under a policy with a longer window_ms.
C37_OtherKeysKept ==
  [][ (rlcalls'.total = rlcalls.total + 1) =>
        \A B \in RateKeys \ {rlres'.key} :
          LET cfg == PolicyOf(B)
              windowStart == (now \div cfg.windowMs) * cfg.windowMs
          IN RateRow(rate_limit_windows', B, windowStart)
               = RateRow(rate_limit_windows, B, windowStart)
    ]_vars

(***************************************************************************)
(* Properties of calls on one user that overlap.                           *)
(***************************************************************************)
\* C38: when two totp/verify requests presenting the same backup code of the
\* same user run concurrently (each reading the user row, then saving it,
\* with other requests interleaved at the await points), at most one of them
\* succeeds.
C38_BackupCodeOnceUnderRace ==
  \A i, j \in 1..Len(ahist) :
    (/\ i # j
     /\ ahist[i].op = "verify" /\ ahist[j].op = "verify"
     /\ ahist[i].userId = ahist[j].userId
     /\ ahist[i].totpCode = ahist[j].totpCode
     /\ ahist[i].totpCode[1] = "backup")
      => ~(ahist[i].ok /\ ahist[j].ok)

\* the call of p ends with this step
CallEnds(p) == apend[p].op # "none" /\ apend'[p].op = "none"

\* C39: a completed change to a user row is never undone by another in-flight
\* operation on the same user that saves a snapshot read earlier: the save
\* of a login or totp/verify leaves password_hash, totp_enabled and
\* totp_secret as they are stored, and backup_codes too but for the code the
\* totp/verify itself consumed.
C39_SaveKeepsCompletedChange ==
  [][ \A p \in RaceProcs : CallEnds(p) =>
        \A u \in DOMAIN users :
          /\ users'[u].passwordHash = users[u].passwordHash
          /\ users'[u].totpEnabled = users[u].totpEnabled
          /\ users'[u].totpSecret = users[u].totpSecret
          /\ \/ users'[u].backupCodes = users[u].backupCodes
             \/ /\ apend[p].op = "verify"
                /\ users'[u].backupCodes =
                     SelectSeq(users[u].backupCodes, LAMBDA c : c # apend[p].totpCode)
    ]_vars

\* the metric updates of dispatches to agent id that have completed, and
\* those among them whose backend call failed
UpdatesDone(id) ==
  {k \in 1..Len(mdone) : mdone[k].op = "metrics" /\ mdone[k].agentId = id}
FailuresDone(id) == {k \in UpdatesDone(id) : ~mdone[k].success}

\* C36: under any interleaving of concurrent dispatches and health probes on
\* the same agent, once all of them have completed the agent's request_count
\* equals its earlier value (0 at creation) plus the number of dispatches
\* that made a backend call, and error_count its earlier value plus the
\* number of those that failed: no metric update is lost.
C36_NoLostMetricUpdate ==
  (\A p \in MetricProcs : mpend[p].op = "none") =>
    \A id \in DOMAIN agent_health :
      /\ agent_health[id].requestCount = Cardinality(UpdatesDone(id))
      /\ agent_health[id].errorCount = Cardinality(FailuresDone(id))

\* C35: every dispatch that reached the backend call changes the serving
\* agent's request_count by exactly 1 and its error_count by 1 only if the
\* backend call failed, also when the metric update or the audit append that
\* follows a successful backend call raises an error.
C35_OneCountPerDispatch ==
  [][ (disp.pc \in {"answered", "failed"} /\ disp'.pc = "idle") =>
        LET a == disp.agentId
            old == CHOOSE h \in disp.health0 : TRUE
            new == agent_health'[a]
        IN /\ new.requestCount = old.requestCount + 1
           /\ new.errorCount = old.errorCount + (IF disp.pc = "failed" THEN 1 ELSE 0)
    ]_vars

\* the ids createAgent gives to the first and the second agent
StarveIds == {HexId(3), HexId(5)}

\* agent a is online, and so is another agent
StableHealthy(a) ==
  /\ a \in DOMAIN agent_health
  /\ agent_health[a].status = "online"
  /\ \E b \in DOMAIN agent_health \ {a} : agent_health[b].status = "online"

\* C34: on an unchanged healthy set of two or more agents, weighted dispatch
\* serves every healthy agent again and again also when cache reloads
\* (invalidation by an agent create, update or delete) happen between
\* selections: there is no unbounded run of selections that all return the
\* same agent.
C34_NoStarvation ==
  \A a \in StarveIds : (<>[]StableHealthy(a)) => []<>(sync.picked = a)

====
